---- MODULE Spec2Model ----
(***************************************************************************)
(* A model of eafutil's clip extraction pipeline: the string sanitizer      *)
(* (src/src/text.rs), the clip ledger (src/src/clips.rs, Clips / Clip), the *)
(* interactive selectors (src/src/eaf.rs, src/src/files.rs), the            *)
(* extractor clips::run (src/src/clips.rs) and the media cut                *)
(* FFmpeg::extract_timespan (src/src/ffmpeg.rs).                            *)
(*                                                                         *)
(* Strings are sequences of characters; a character is a one-element atom   *)
(* written as a TLA+ string ("a", " ", "U00E9" for U+00E9, ...).            *)
(* An Option<T> is a sequence of length at most one: None is <<>> and       *)
(* Some(x) is <<x>>.                                                        *)
(***************************************************************************)
EXTENDS Integers, Sequences, FiniteSets, TLC

VARIABLES
    t_in,    \* arguments of a process_string call
    t_out,   \* its return value (Option: <<>> before the call)
    n_in,    \* the values one pass of run's boundary loop composes a name from
    n_out,   \* the composed `annotstem` (Option)
    q_in,    \* a ledger and the path Clips::get_timestamps is called with
    q_out,   \* Option of the value get_timestamps returned (itself an Option)
    j_in,    \* the Clips value Clips::write is called on
    j_write, \* what Clips::write did: "none" (not called), "ok", "json_err", "io_err"
    j_file,  \* Option of the text of the file it wrote
    j_back,  \* Option of what Clips::read returned for that file
    s_cfg,   \* the prompt function called (select_tier, select_annotation,
             \* confirm), what it lists, and the build's overflow checks
    s_pc,    \* "idle", "prompt" (at read_line), "returned", "io_error", "panicked"
    s_ret,   \* Option of the value returned: the 1-based position of the
             \* tier or annotation returned, or confirm's bool
    s_line,  \* Option of the last line read_line put in the buffer
    s_msg,   \* the message printed for that line, "none" if none
    s_eof,   \* standard input has reached end-of-file
    s_n,     \* the number of lines read so far
    r_cfg,   \* clips::run: Option of its arguments (dryrun, single, extract_all,
             \* min_dur) and the document the eaf argument names
    r_pc,    \* the place run has reached; "done", "failed" (it returned Err)
             \* and "panicked" are final
    r_err,   \* which error run returned, "none" while it has not
    r_dirs,  \* the directories that exist: 0 is outdir, k the
             \* subdirectory of the k-th tier of the document
    r_new,   \* the directories among them this run created
    r_media, \* media_process_paths
    r_tiers, \* tiers: the positions in the document of the tiers to process
    r_t,     \* the pass of the loop over tiers (0 before the loop)
    r_bounds,     \* boundaries of the tier being processed
    r_idx,        \* the pass of the loop over boundaries (idx + 1)
    r_m,          \* the pass of the loop over media_process_paths
    r_clip,       \* clip
    r_tier_clips, \* tier_clips
    r_durations,  \* durations
    r_cuts,       \* the calls of FFmpeg::extract_timespan made so far, in
                  \* order: <<tier, boundary, media file>> passes
    r_last,  \* Option of what the last pass over a media file found and
             \* did: the output path, whether it existed, the answer given
             \* to the overwrite prompt, the result of the cut
    r_written, \* the ledgers written so far, in order: [tier, clips]
    r_clips, \* Option of clips, the ledger every tier's ledger is cloned from
    f_in,    \* the arguments FFmpeg::extract_timespan is called with, and the
             \* build's overflow checks
    f_out,   \* Option of what the call did: what it returned, and what
             \* became of the ffmpeg subprocess
    w_in,    \* the transcripts join or to_eaf is called on: self and others
    w_out,   \* Option of what the call returned; while to_eaf runs, of its
             \* vectors of annotations and time slots and the pass of its loop
    o_in,    \* writefile: Option of its content argument and of what was
             \* at path when it was called
    o_pc,    \* "idle", "start", "confirm" (at read_line), "write", "returned"
    o_file,  \* Option of the content of the file at path: None if no file
    o_ret,   \* what writefile returned: "none" while it has not, "Ok(true)",
             \* "Ok(false)" or "Err"
    o_line,  \* Option of the last line confirm read
    o_n      \* the number of lines confirm has read

textVars == <<t_in, t_out>>
stemVars == <<n_in, n_out>>
lookupVars == <<q_in, q_out>>
jsonVars == <<j_in, j_write, j_file, j_back>>
selectVars == <<s_cfg, s_pc, s_ret, s_line, s_msg, s_eof, s_n>>
runVars == <<r_cfg, r_pc, r_err, r_dirs, r_new, r_media, r_tiers, r_t, r_bounds,
             r_idx, r_m, r_clip, r_tier_clips, r_durations, r_cuts, r_last,
             r_written, r_clips>>
cutVars == <<f_in, f_out>>
whisperVars == <<w_in, w_out>>
writeVars == <<o_in, o_pc, o_file, o_ret, o_line, o_n>>
vars == <<t_in, t_out, n_in, n_out, q_in, q_out, j_in, j_write, j_file, j_back,
          s_cfg, s_pc, s_ret, s_line, s_msg, s_eof, s_n,
          r_cfg, r_pc, r_err, r_dirs, r_new, r_media, r_tiers, r_t, r_bounds,
          r_idx, r_m, r_clip, r_tier_clips, r_durations, r_cuts, r_last,
          r_written, r_clips, f_in, f_out, w_in, w_out,
          o_in, o_pc, o_file, o_ret, o_line, o_n>>

\* the variables of the parts a specification leaves alone
notText == <<stemVars, lookupVars, jsonVars, selectVars, runVars, cutVars,
            whisperVars, writeVars>>
notStem == <<textVars, lookupVars, jsonVars, selectVars, runVars, cutVars,
            whisperVars, writeVars>>
notLookup == <<textVars, stemVars, jsonVars, selectVars, runVars, cutVars,
            whisperVars, writeVars>>
notJson == <<textVars, stemVars, lookupVars, selectVars, runVars, cutVars,
            whisperVars, writeVars>>
notSelect == <<textVars, stemVars, lookupVars, jsonVars, runVars, cutVars,
            whisperVars, writeVars>>
notRun == <<textVars, stemVars, lookupVars, jsonVars, selectVars, cutVars,
            whisperVars, writeVars>>
notCut == <<textVars, stemVars, lookupVars, jsonVars, selectVars, runVars,
           whisperVars, writeVars>>
notWhisper == <<textVars, stemVars, lookupVars, jsonVars, selectVars, runVars,
               cutVars, writeVars>>
notWrite == <<textVars, stemVars, lookupVars, jsonVars, selectVars, runVars,
             cutVars, whisperVars>>

(* Each specification below exercises one part of the program; the        *)
(* variables of the other parts stay as these predicates leave them.      *)

TextIdle == t_in = <<>> /\ t_out = <<>>

StemIdle == n_in = <<>> /\ n_out = <<>>

LookupIdle == q_in = <<>> /\ q_out = <<>>

JsonIdle == j_in = <<>> /\ j_write = "none" /\ j_file = <<>> /\ j_back = <<>>

SelectIdle ==
    /\ s_cfg = <<>> /\ s_pc = "idle" /\ s_ret = <<>> /\ s_line = <<>>
    /\ s_msg = "none" /\ s_eof = FALSE /\ s_n = 0

RunIdle ==
    /\ r_cfg = <<>> /\ r_pc = "idle" /\ r_err = "none"
    /\ r_dirs = {} /\ r_new = {} /\ r_media = <<>> /\ r_tiers = <<>> /\ r_t = 0
    /\ r_bounds = <<>> /\ r_idx = 0 /\ r_m = 0
    /\ r_clip = <<>> /\ r_tier_clips = <<>> /\ r_durations = <<>>
    /\ r_cuts = <<>> /\ r_last = <<>> /\ r_written = <<>> /\ r_clips = <<>>

CutIdle == f_in = <<>> /\ f_out = <<>>

WhisperIdle == w_in = <<>> /\ w_out = <<>>

WriteIdle ==
    /\ o_in = <<>> /\ o_pc = "idle" /\ o_file = <<>> /\ o_ret = "none"
    /\ o_line = <<>> /\ o_n = 0

--------------------------------------------------------------------------
(* Option<T> *)

None == <<>>

Some(x) == <<x>>

IsSome(o) == Len(o) = 1

Unwrap(o) == o[1]

Min(a, b) == IF a <= b THEN a ELSE b

--------------------------------------------------------------------------
(* Bounds of the model *)

\* longest input string drawn for the sanitizer
MaxStrLen == 3

\* largest `len` argument drawn for the sanitizer (beyond MaxStrLen: no cut)
MaxLenArg == 4

\* largest 0-based boundary index a file name is composed for
MaxIdx == 10

\* longest path get_timestamps is queried with (besides the named examples)
MaxQueryLen == 4

\* most records of a ledger that is looked up in
MaxLookupClips == 2

\* most records of a ledger that is written and read back
MaxJsonClips == 2

\* longest path drawn over the characters JSON escapes
MaxJsonPathLen == 2

\* most tiers, or annotations of a tier, a selector lists
MaxItems == 2

\* longest line typed at a selector's prompt, its line feed aside
MaxLineLen == 2

\* most lines a prompt loop reads in one behaviour of the model
MaxPrompts == 2

\* most tiers of a document the extractor is run on
MaxTiers == 2

\* most linked media files of such a document
MaxMedia == 2

\* most segments of a transcript
MaxSegments == 2

\* most transcripts joined, self included
MaxFiles == 3

\* most words of a segment
MaxWords == 3

--------------------------------------------------------------------------
(* Characters.  "U00E9" is e-acute (non-ASCII, not whitespace), "U00A0" is *)
(* the no-break space (non-ASCII and White_Space).                         *)

WhitespaceChars == {" ", "\t", "\n", "\r", "U00A0"}

NonAsciiChars == {"U00E9", "U00A0"}

\* char::is_whitespace
is_whitespace(c) == c \in WhitespaceChars

\* char::is_ascii
is_ascii(c) == c \notin NonAsciiChars

\* the characters the sanitizer is exercised on
Alphabet == {"a", " ", ",", "U00E9", "U00A0"}

\* all strings over S of length at most n
StringsUpTo(S, n) == UNION {[1..k -> S] : k \in 0..n}

--------------------------------------------------------------------------
(* text.rs: process_string *)

\* value.chars().enumerate().filter(|(i, _)| &l > i): keeps the characters
\* with 0-based index i < l, i.e. the first l characters.
TruncateInclusive(value, l) == SubSeq(value, 1, Min(l + 1, Len(value)))

Truncate(value, l) == SubSeq(value, 1, Min(l, Len(value)))

\* a mutant: only the first match is removed, as Regex::replace does
RECURSIVE RemoveFirstOfClass(_, _)
RemoveFirstOfClass(string, class) ==
    IF string = <<>> THEN <<>>
    ELSE IF Head(string) \in class THEN Tail(string)
    ELSE <<Head(string)>> \o RemoveFirstOfClass(Tail(string), class)

\* rx.replace_all(&string, ""), for a pattern that is a character class:
\* every character of the class is removed, the others keep their order.
RemoveClass(string, class) == SelectSeq(string, LAMBDA c : c \notin class)

RECURSIVE TrimStart(_)
TrimStart(s) ==
    IF s # <<>> /\ is_whitespace(Head(s)) THEN TrimStart(Tail(s)) ELSE s

RECURSIVE TrimEnd(_)
TrimEnd(s) ==
    IF s # <<>> /\ is_whitespace(s[Len(s)])
    THEN TrimEnd(SubSeq(s, 1, Len(s) - 1))
    ELSE s

\* str::trim
Trim(s) == TrimEnd(TrimStart(s))

\* str::replace(|c| pred(c), &to.to_string()): one character for one
ReplaceWhitespace(s, w) ==
    [i \in 1..Len(s) |-> IF is_whitespace(s[i]) THEN w ELSE s[i]]

ReplaceNonAscii(s, a) ==
    [i \in 1..Len(s) |-> IF ~is_ascii(s[i]) THEN a ELSE s[i]]

\* a mutant: the last arm of the match trims as the others do
SubstituteTrimsAlways(string, ascii, whitespace) ==
    CASE IsSome(ascii) /\ IsSome(whitespace) ->
            ReplaceNonAscii(
                ReplaceWhitespace(Trim(string), Unwrap(whitespace)),
                Unwrap(ascii))
      [] IsSome(ascii) /\ ~IsSome(whitespace) ->
            ReplaceNonAscii(Trim(string), Unwrap(ascii))
      [] ~IsSome(ascii) /\ IsSome(whitespace) ->
            ReplaceWhitespace(Trim(string), Unwrap(whitespace))
      [] OTHER -> Trim(string)

\* a mutant: non-ASCII characters are replaced before whitespace
SubstituteAsciiFirst(string, ascii, whitespace) ==
    CASE IsSome(ascii) /\ IsSome(whitespace) ->
            ReplaceWhitespace(
                ReplaceNonAscii(Trim(string), Unwrap(ascii)),
                Unwrap(whitespace))
      [] IsSome(ascii) /\ ~IsSome(whitespace) ->
            ReplaceNonAscii(Trim(string), Unwrap(ascii))
      [] ~IsSome(ascii) /\ IsSome(whitespace) ->
            ReplaceWhitespace(Trim(string), Unwrap(whitespace))
      [] OTHER -> string

\* the final match (ascii, whitespace) of process_string
Substitute(string, ascii, whitespace) ==
    CASE IsSome(ascii) /\ IsSome(whitespace) ->
            ReplaceNonAscii(
                ReplaceWhitespace(Trim(string), Unwrap(whitespace)),
                Unwrap(ascii))
      [] IsSome(ascii) /\ ~IsSome(whitespace) ->
            ReplaceNonAscii(Trim(string), Unwrap(ascii))
      [] ~IsSome(ascii) /\ IsSome(whitespace) ->
            ReplaceWhitespace(Trim(string), Unwrap(whitespace))
      [] OTHER -> string

\* process_string(value, ascii, whitespace, regex, len); `regex` is an
\* Option of a character class
process_string(value, ascii, whitespace, regex, len) ==
    LET truncated == IF IsSome(len) THEN Truncate(value, Unwrap(len)) ELSE value
        stripped  == IF IsSome(regex)
                     THEN RemoveClass(truncated, Unwrap(regex))
                     ELSE truncated
    IN  Substitute(stripped, ascii, whitespace)

--------------------------------------------------------------------------
(* Specification of the sanitizer: the arguments are drawn in Init, the    *)
(* call is one step.                                                       *)

SubstituteChars == {None, Some("_"), Some("U00E9"), Some(" ")}

\* the character class of Regex::new("[\"\'#*<>{}()\\[\\].,:;!/?=\\\\-]")
re2remove ==
    {"\"", "'", "#", "*", "<", ">", "{", "}", "(", ")", "[", "]", ".", ",",
     ":", ";", "!", "/", "?", "=", "\\", "-"}

StripClasses == {None, Some({","}), Some({",", " "}), Some(re2remove)}

LenArgs == {None} \cup {Some(n) : n \in 0..MaxLenArg}

TextInputs ==
    [value : StringsUpTo(Alphabet, MaxStrLen),
     ascii : SubstituteChars,
     whitespace : SubstituteChars,
     regex : StripClasses,
     len : LenArgs]

TextInit ==
    /\ t_in \in TextInputs
    /\ t_out = None
    /\ StemIdle /\ LookupIdle /\ JsonIdle /\ SelectIdle /\ RunIdle /\ CutIdle
    /\ WhisperIdle /\ WriteIdle

CallProcessString ==
    /\ t_out = None
    /\ t_out' = Some(process_string(t_in.value, t_in.ascii, t_in.whitespace,
                                    t_in.regex, t_in.len))
    /\ UNCHANGED <<t_in, notText>>

TextNext == CallProcessString

SpecText == TextInit /\ [][TextNext]_vars

--------------------------------------------------------------------------
(* clips.rs, run: the `annotstem` part of an output file name *)

DigitChars == <<"0", "1", "2", "3", "4", "5", "6", "7", "8", "9">>

\* the decimal digits of a natural number, as format!("{}", n) prints them
RECURSIVE Digits(_)
Digits(n) ==
    IF n < 10 THEN <<DigitChars[n + 1]>>
    ELSE Digits(n \div 10) \o <<DigitChars[(n % 10) + 1]>>

\* format!("{}", i) of an i64
FormatInt(i) == IF i < 0 THEN <<"-">> \o Digits(-i) ELSE Digits(i)

\* format!("{:04}", n) of a usize: zero-padded to a width of at least 4
RECURSIVE PadZero(_, _)
PadZero(s, width) == IF Len(s) >= width THEN s ELSE PadZero(<<"0">> \o s, width)

FormatIndex(n) == PadZero(Digits(n), 4)

\* process_string(val, if ascii_path {Some(&'_')} else {None}, Some(&'_'),
\*                Some(&re2remove), Some(max_len))
ProcessedVal(val, ascii_path, max_len) ==
    process_string(val,
                   IF ascii_path THEN Some("_") ELSE None,
                   Some("_"),
                   Some(re2remove),
                   Some(max_len))

\* a mutant: the annotation id is pushed before the tier id
AnnotstemIdFirst(idx, tier_id, a_id, val, start_ms, end_ms, f) ==
    LET s0 == <<"a","n","n","o","t","a","t","i","o","n","_">> \o FormatIndex(idx + 1)
        s1 == IF f.use_a_id THEN s0 \o <<"_">> \o a_id ELSE s0
        s2 == IF f.use_t_id THEN s1 \o <<"_">> \o tier_id ELSE s1
        s3 == IF f.use_val
              THEN s2 \o <<"_">> \o ProcessedVal(val, f.ascii_path, f.max_len)
              ELSE s2
    IN  IF f.use_time
        THEN s3 \o <<"_">> \o FormatInt(start_ms) \o <<"-">> \o FormatInt(end_ms)
        ELSE s3

\* lines 303-325: annotstem for the boundary with 0-based index idx;
\* f holds use_t_id, use_a_id, use_val, use_time, ascii_path, max_len
Annotstem(idx, tier_id, a_id, val, start_ms, end_ms, f) ==
    LET s0 == <<"a","n","n","o","t","a","t","i","o","n","_">> \o FormatIndex(idx + 1)
        s1 == IF f.use_t_id THEN s0 \o <<"_">> \o tier_id ELSE s0
        s2 == IF f.use_a_id THEN s1 \o <<"_">> \o a_id ELSE s1
        s3 == IF f.use_val
              THEN s2 \o <<"_">> \o ProcessedVal(val, f.ascii_path, f.max_len)
              ELSE s2
    IN  IF f.use_time
        THEN s3 \o <<"_">> \o FormatInt(start_ms) \o <<"-">> \o FormatInt(end_ms)
        ELSE s3

--------------------------------------------------------------------------
(* Specification of the file name composition: the boundary and the flags  *)
(* are drawn in Init, composing the name is one step.                      *)

Str_utterance == <<"u","t","t","e","r","a","n","c","e">>

Str_HelloWorld == <<"H","e","l","l","o",","," ","w","o","r","l","d","!">>

StemTierIds == {<<"t","1">>, Str_utterance}

StemAnnotationIds == {<<"a","7">>, <<"a","1","2">>}

StemValues == {<<>>, <<"a"," ","U00E9">>, <<" ","a",".","b">>, Str_HelloWorld}

StemSpans == {<<0, 100>>, <<1200, 3400>>}

\* clap's default for max-length is 20 (main.rs); 2 cuts every value above
StemMaxLens == {2, 20}

StemFlags ==
    [use_t_id : BOOLEAN, use_a_id : BOOLEAN, use_val : BOOLEAN,
     use_time : BOOLEAN, ascii_path : BOOLEAN, max_len : StemMaxLens]

StemInputs ==
    [idx : 0..MaxIdx, tier_id : StemTierIds, a_id : StemAnnotationIds,
     val : StemValues, span : StemSpans, flags : StemFlags]

StemInit ==
    /\ \E i \in StemInputs : n_in = Some(i)
    /\ n_out = None
    /\ TextIdle /\ LookupIdle /\ JsonIdle /\ SelectIdle /\ RunIdle /\ CutIdle
    /\ WhisperIdle /\ WriteIdle

ComposeAnnotstem ==
    /\ n_out = None
    /\ LET i == Unwrap(n_in)
       IN  n_out' = Some(Annotstem(i.idx, i.tier_id, i.a_id, i.val,
                                   i.span[1], i.span[2], i.flags))
    /\ UNCHANGED <<n_in, notStem>>

StemNext == ComposeAnnotstem

SpecStem == StemInit /\ [][StemNext]_vars

--------------------------------------------------------------------------
(* std::path::Path, as far as clips.rs uses it.  A path is a string; its   *)
(* components are separated by "/".                                        *)

\* the components of a path, split at "/"; cur is the component being read
RECURSIVE SplitPath(_, _)
SplitPath(path, cur) ==
    IF path = <<>> THEN <<cur>>
    ELSE IF Head(path) = "/" THEN <<cur>> \o SplitPath(Tail(path), <<>>)
    ELSE SplitPath(Tail(path), Append(cur, Head(path)))

\* Path::file_name: the last component, if it is a normal one.  Empty
\* components and "." components are skipped (a lone "." is CurDir, which
\* is no file name); a path that ends in ".." has no file name.
FileName(path) ==
    LET parts  == SplitPath(path, <<>>)
        normal == SelectSeq(parts, LAMBDA c : c # <<>> /\ c # <<".">>)
    IN  IF normal = <<>> \/ normal[Len(normal)] = <<".", ".">>
        THEN None
        ELSE Some(normal[Len(normal)])

\* the position of the last "." of a file name, 0 if it has none
LastDot(file) ==
    LET dots == {i \in 1..Len(file) : file[i] = "."}
    IN  IF dots = {} THEN 0 ELSE CHOOSE i \in dots : \A j \in dots : j <= i

\* std's rsplit_file_at_dot: <<before, after>>, both Options
SplitFileAtDot(file) ==
    LET k == LastDot(file)
    IN  IF file = <<".", ".">> THEN <<Some(file), None>>
        ELSE IF k = 0 THEN <<None, Some(file)>>
        ELSE IF k = 1 THEN <<Some(file), None>>
        ELSE <<Some(SubSeq(file, 1, k - 1)), Some(SubSeq(file, k + 1, Len(file)))>>

\* Path::file_stem: before.or(after)
FileStem(path) ==
    IF FileName(path) = None THEN None
    ELSE LET sp == SplitFileAtDot(Unwrap(FileName(path)))
         IN  IF IsSome(sp[1]) THEN sp[1] ELSE sp[2]

\* Path::extension: before.and(after)
Extension(path) ==
    IF FileName(path) = None THEN None
    ELSE LET sp == SplitFileAtDot(Unwrap(FileName(path)))
         IN  IF IsSome(sp[1]) THEN sp[2] ELSE None

--------------------------------------------------------------------------
(* clips.rs: Clips and Clip *)

\* Clip::new and Clip::default
Clip(media, start, end) == [media |-> media, start |-> start, end |-> end]

\* Clips::with_media
with_media(media) == [original_media |-> media, clips |-> <<>>]

\* a mutant: the record is put in front of the others
ClipsAddFirst(ledger, clip) == [ledger EXCEPT !.clips = <<clip>> \o @]

\* Clips::add
ClipsAdd(ledger, clip) == [ledger EXCEPT !.clips = Append(@, clip)]

\* Clip::add
ClipAdd(clip, path) == [clip EXCEPT !.media = Append(@, path)]

\* Clip::ts
ClipTs(clip, start, end) == [clip EXCEPT !.start = start, !.end = end]

\* a mutant: the extension is stripped once only
StripExtensionsOnce(filestem) == filestem

\* lines 70-76: strip extension-like components until none is left
RECURSIVE StripExtensions(_)
StripExtensions(filestem) ==
    IF Extension(filestem) = None THEN filestem
    ELSE StripExtensions(Unwrap(FileStem(filestem)))

\* whether some media path of the clip has the file stem
ClipHasStem(clip, filestem) ==
    \E k \in 1..Len(clip.media) : FileStem(clip.media[k]) = Some(filestem)

\* Clips::get_timestamps
get_timestamps(ledger, path) ==
    IF FileStem(path) = None THEN None
    ELSE LET filestem == StripExtensions(Unwrap(FileStem(path)))
             hits == {k \in 1..Len(ledger.clips) :
                          ClipHasStem(ledger.clips[k], filestem)}
         IN  IF hits = {} THEN None
             ELSE LET k == CHOOSE i \in hits : \A j \in hits : i <= j
                  IN  Some(<<ledger.clips[k].start, ledger.clips[k].end>>)

--------------------------------------------------------------------------
(* Specification of the lookup: a ledger and a queried path are drawn in   *)
(* Init, the call is one step.                                             *)

Str_talk_wav == <<"t","a","l","k",".","w","a","v">>

Str_talk_words_wav_json == <<"t","a","l","k",".","w","o","r","d","s",".","w","a","v",".","j","s","o","n">>

LookupMediaLists ==
    {<<Str_talk_wav>>,
     <<<<"a", ".", "a">>>>,
     <<<<".", "a">>, <<"a", "a", ".", "a">>>>,
     <<<<"/", "a", "/", "a", ".">>>>,
     <<<<".", ".", ".", "a">>, <<"a">>>>}

\* the time span of the record at position k of a ledger: every record
\* has its own
LookupSpans(k) ==
    IF k = 1 THEN <<1000, 5000>> ELSE <<(k - 2) * 100, (k - 1) * 100>>

LookupClips(media) ==
    [k \in 1..Len(media) |-> Clip(media[k], LookupSpans(k)[1], LookupSpans(k)[2])]

LookupLedgers ==
    {[original_media |-> <<Str_talk_wav>>, clips |-> LookupClips(m)] :
        m \in UNION {[1..k -> LookupMediaLists] : k \in 0..MaxLookupClips}}

LookupQueries ==
    StringsUpTo({"a", ".", "/"}, MaxQueryLen)
    \cup {Str_talk_words_wav_json, Str_talk_wav,
          <<".", ".", ".", "a", ".", "a">>, <<"a", "/", "a", "a", ".", "a", ".">>}

LookupInit ==
    /\ \E l \in LookupLedgers, p \in LookupQueries :
            q_in = Some([ledger |-> l, path |-> p])
    /\ q_out = None
    /\ TextIdle /\ StemIdle /\ JsonIdle /\ SelectIdle /\ RunIdle /\ CutIdle
    /\ WhisperIdle /\ WriteIdle

CallGetTimestamps ==
    /\ q_out = None
    /\ q_out' = Some(get_timestamps(Unwrap(q_in).ledger, Unwrap(q_in).path))
    /\ UNCHANGED <<q_in, notLookup>>

LookupNext == CallGetTimestamps

SpecLookup == LookupInit /\ [][LookupNext]_vars

--------------------------------------------------------------------------
(* clips.rs: Clips::write and Clips::read, i.e. serde_json::to_string and  *)
(* serde_json::from_str on the derived Serialize / Deserialize of Clips    *)
(* and Clip.  The JSON text is a string of characters.  "xFF" stands for a *)
(* byte of a path that is not valid UTF-8.                                  *)

\* a mutant: the backslash is written as it is
EscapeCharNoBackslash(c) ==
    CASE c = "\"" -> <<"\\", "\"">>
      [] c = "\n" -> <<"\\", "n">>
      [] c = "\r" -> <<"\\", "r">>
      [] c = "\t" -> <<"\\", "t">>
      [] OTHER    -> <<c>>

\* serde_json's string escapes
EscapeChar(c) ==
    CASE c = "\"" -> <<"\\", "\"">>
      [] c = "\\" -> <<"\\", "\\">>
      [] c = "\n" -> <<"\\", "n">>
      [] c = "\r" -> <<"\\", "r">>
      [] c = "\t" -> <<"\\", "t">>
      [] OTHER    -> <<c>>

RECURSIVE EscapeString(_)
EscapeString(str) ==
    IF str = <<>> THEN <<>> ELSE EscapeChar(Head(str)) \o EscapeString(Tail(str))

\* Path::to_str() is Some: serde serializes a path only if it is valid UTF-8
IsUtf8(path) == \A k \in 1..Len(path) : path[k] # "xFF"

JsonString(str) == <<"\"">> \o EscapeString(str) \o <<"\"">>

\* the elements of a list, each already serialized, as a JSON array
RECURSIVE JoinComma(_)
JoinComma(items) ==
    IF items = <<>> THEN <<>>
    ELSE IF Len(items) = 1 THEN items[1]
    ELSE items[1] \o <<",">> \o JoinComma(Tail(items))

JsonArray(items) == <<"[">> \o JoinComma(items) \o <<"]">>

JsonPaths(paths) == JsonArray([k \in 1..Len(paths) |-> JsonString(paths[k])])

Key_media == <<"m","e","d","i","a">>

Key_start == <<"s","t","a","r","t">>

Key_end == <<"e","n","d">>

Key_original_media == <<"o","r","i","g","i","n","a","l","_","m","e","d","i","a">>

Key_clips == <<"c","l","i","p","s">>

\* #[derive(Serialize)] of Clip: the fields in declaration order
JsonClip(clip) ==
    <<"{">> \o JsonString(Key_media) \o <<":">> \o JsonPaths(clip.media)
    \o <<",">> \o JsonString(Key_start) \o <<":">> \o FormatInt(clip.start)
    \o <<",">> \o JsonString(Key_end) \o <<":">> \o FormatInt(clip.end)
    \o <<"}">>

\* #[derive(Serialize)] of Clips
JsonClips(ledger) ==
    <<"{">> \o JsonString(Key_original_media) \o <<":">>
    \o JsonPaths(ledger.original_media)
    \o <<",">> \o JsonString(Key_clips) \o <<":">>
    \o JsonArray([k \in 1..Len(ledger.clips) |-> JsonClip(ledger.clips[k])])
    \o <<"}">>

\* every path of the ledger
LedgerPaths(ledger) ==
    {ledger.original_media[k] : k \in 1..Len(ledger.original_media)}
    \cup UNION {{ledger.clips[c].media[k] : k \in 1..Len(ledger.clips[c].media)} :
                    c \in 1..Len(ledger.clips)}

\* serde_json::to_string(&self): None when a path cannot be serialized
to_string(ledger) ==
    IF \A path \in LedgerPaths(ledger) : IsUtf8(path)
    THEN Some(JsonClips(ledger))
    ELSE None

(* The parser.  A parse step returns [ok, val, pos]: whether it succeeded, *)
(* the value read and the position after it.                               *)

ParseFail == [ok |-> FALSE, val |-> <<>>, pos |-> 0]

ParseOk(val, pos) == [ok |-> TRUE, val |-> val, pos |-> pos]

CharAt(text, pos) == IF pos >= 1 /\ pos <= Len(text) THEN text[pos] ELSE "EOF"

\* the character an escape sequence \c stands for
Unescape(c) ==
    CASE c = "\"" -> Some("\"")
      [] c = "\\" -> Some("\\")
      [] c = "/"  -> Some("/")
      [] c = "n"  -> Some("\n")
      [] c = "r"  -> Some("\r")
      [] c = "t"  -> Some("\t")
      [] OTHER    -> None

\* the characters of a JSON string up to its closing quote
RECURSIVE ScanString(_, _, _)
ScanString(text, pos, acc) ==
    LET c == CharAt(text, pos)
    IN  CASE c = "EOF" -> ParseFail
          [] c = "\"" -> ParseOk(acc, pos + 1)
          [] c = "\\" ->
                IF Unescape(CharAt(text, pos + 1)) = None THEN ParseFail
                ELSE ScanString(text, pos + 2,
                                Append(acc, Unwrap(Unescape(CharAt(text, pos + 1)))))
          [] c \in {"\n", "\r", "\t"} -> ParseFail
          [] OTHER -> ScanString(text, pos + 1, Append(acc, c))

ParseString(text, pos) ==
    IF CharAt(text, pos) = "\"" THEN ScanString(text, pos + 1, <<>>) ELSE ParseFail

IsDigit(c) == \E k \in 1..10 : DigitChars[k] = c

DigitValue(c) == (CHOOSE k \in 1..10 : DigitChars[k] = c) - 1

\* the digits from pos on, read into acc
RECURSIVE ScanDigits(_, _, _)
ScanDigits(text, pos, acc) ==
    IF IsDigit(CharAt(text, pos))
    THEN ScanDigits(text, pos + 1, 10 * acc + DigitValue(text[pos]))
    ELSE ParseOk(acc, pos)

\* a parsed number with its sign changed
Negated(r) == [r EXCEPT !.val = -@]

\* an i64: an optional '-' and at least one digit
ParseInt(text, pos) ==
    IF CharAt(text, pos) = "-"
    THEN IF ~IsDigit(CharAt(text, pos + 1)) THEN ParseFail
         ELSE Negated(ScanDigits(text, pos + 1, 0))
    ELSE IF ~IsDigit(CharAt(text, pos)) THEN ParseFail
         ELSE ScanDigits(text, pos, 0)

\* Then(r, Body): the value of Body for the parse result r, r being
\* evaluated once (a parse step that follows another one)
Then(r, Body(_)) == CHOOSE v \in {Body(x) : x \in {r}} : TRUE

\* the elements of an array of strings after the first
RECURSIVE ScanPaths(_, _, _)
ScanPaths(text, pos, acc) ==
    CASE CharAt(text, pos) = "]" -> ParseOk(acc, pos + 1)
      [] CharAt(text, pos) = "," ->
            Then(ParseString(text, pos + 1),
                 LAMBDA e : IF e.ok
                            THEN ScanPaths(text, e.pos, Append(acc, e.val))
                            ELSE ParseFail)
      [] OTHER -> ParseFail

\* Vec<PathBuf>
ParsePaths(text, pos) ==
    IF CharAt(text, pos) # "[" THEN ParseFail
    ELSE IF CharAt(text, pos + 1) = "]" THEN ParseOk(<<>>, pos + 2)
    ELSE Then(ParseString(text, pos + 1),
              LAMBDA e : IF e.ok THEN ScanPaths(text, e.pos, <<e.val>>)
                         ELSE ParseFail)

\* the field of Clip a key names
ClipField(key) ==
    CASE key = Key_media -> "media"
      [] key = Key_start -> "start"
      [] key = Key_end   -> "end"
      [] OTHER           -> "unknown"

\* the value of a field of Clip
ParseClipValue(text, pos, field) ==
    IF field = "media" THEN ParsePaths(text, pos) ELSE ParseInt(text, pos)

\* the "key":value pairs of a Clip object; acc holds an Option per field.
\* A repeated field is an error, as is a missing one; a field that Clip
\* does not have is never written by to_string and is not modelled.
RECURSIVE ScanClipFields(_, _, _)
ScanClipFields(text, pos, acc) ==
    Then(ParseString(text, pos), LAMBDA key :
        IF ~key.ok \/ CharAt(text, key.pos) # ":" \/ ClipField(key.val) = "unknown"
        THEN ParseFail
        ELSE Then(ParseClipValue(text, key.pos + 1, ClipField(key.val)), LAMBDA val :
            IF ~val.ok \/ IsSome(acc[ClipField(key.val)]) THEN ParseFail
            ELSE Then([acc EXCEPT ![ClipField(key.val)] = Some(val.val)], LAMBDA next :
                CASE CharAt(text, val.pos) = "," ->
                        ScanClipFields(text, val.pos + 1, next)
                  [] CharAt(text, val.pos) = "}" ->
                        IF \A f \in {"media", "start", "end"} : IsSome(next[f])
                        THEN ParseOk(Clip(Unwrap(next.media), Unwrap(next.start),
                                          Unwrap(next.end)),
                                     val.pos + 1)
                        ELSE ParseFail
                  [] OTHER -> ParseFail)))

\* #[derive(Deserialize)] of Clip
ParseClip(text, pos) ==
    IF CharAt(text, pos) # "{" THEN ParseFail
    ELSE ScanClipFields(text, pos + 1, [media |-> None, start |-> None, end |-> None])

RECURSIVE ScanClipList(_, _, _)
ScanClipList(text, pos, acc) ==
    CASE CharAt(text, pos) = "]" -> ParseOk(acc, pos + 1)
      [] CharAt(text, pos) = "," ->
            Then(ParseClip(text, pos + 1),
                 LAMBDA e : IF e.ok
                            THEN ScanClipList(text, e.pos, Append(acc, e.val))
                            ELSE ParseFail)
      [] OTHER -> ParseFail

\* Vec<Clip>
ParseClipList(text, pos) ==
    IF CharAt(text, pos) # "[" THEN ParseFail
    ELSE IF CharAt(text, pos + 1) = "]" THEN ParseOk(<<>>, pos + 2)
    ELSE Then(ParseClip(text, pos + 1),
              LAMBDA e : IF e.ok THEN ScanClipList(text, e.pos, <<e.val>>)
                         ELSE ParseFail)

\* the field of Clips a key names
ClipsField(key) ==
    CASE key = Key_original_media -> "original_media"
      [] key = Key_clips -> "clips"
      [] OTHER -> "unknown"

\* the value of a field of Clips
ParseClipsValue(text, pos, field) ==
    IF field = "clips" THEN ParseClipList(text, pos) ELSE ParsePaths(text, pos)

RECURSIVE ScanClipsFields(_, _, _)
ScanClipsFields(text, pos, acc) ==
    Then(ParseString(text, pos), LAMBDA key :
        IF ~key.ok \/ CharAt(text, key.pos) # ":" \/ ClipsField(key.val) = "unknown"
        THEN ParseFail
        ELSE Then(ParseClipsValue(text, key.pos + 1, ClipsField(key.val)), LAMBDA val :
            IF ~val.ok \/ IsSome(acc[ClipsField(key.val)]) THEN ParseFail
            ELSE Then([acc EXCEPT ![ClipsField(key.val)] = Some(val.val)], LAMBDA next :
                CASE CharAt(text, val.pos) = "," ->
                        ScanClipsFields(text, val.pos + 1, next)
                  [] CharAt(text, val.pos) = "}" ->
                        IF IsSome(next.original_media) /\ IsSome(next.clips)
                        THEN ParseOk([original_media |-> Unwrap(next.original_media),
                                      clips |-> Unwrap(next.clips)],
                                     val.pos + 1)
                        ELSE ParseFail
                  [] OTHER -> ParseFail)))

\* serde_json::from_str::<Clips>: the object, and nothing after it
from_str(text) ==
    IF CharAt(text, 1) # "{" THEN ParseFail
    ELSE Then(ScanClipsFields(text, 2, [original_media |-> None, clips |-> None]),
              LAMBDA r : IF r.ok /\ r.pos = Len(text) + 1 THEN r ELSE ParseFail)

--------------------------------------------------------------------------
(* Specification of the ledger file: a Clips value is drawn in Init, then  *)
(* written with Clips::write and read back with Clips::read.               *)

JsonPathSet ==
    (StringsUpTo({"a", "\"", "\\"}, MaxJsonPathLen) \ {<<>>})
    \cup {<<"\n">>, <<"U00E9">>, <<",", "]">>, <<"/", "a", ".", "w">>, <<"a", "xFF">>}

JsonMediaLists ==
    {<<>>} \cup {<<path>> : path \in JsonPathSet}
    \cup {<<<<"a">>, <<"\\", "\"">>>>, <<<<"\"">>, <<"a">>, <<"a">>>>}

JsonSpans == {<<0, 0>>, <<-1200, 3400>>, <<2147483647, -1>>}

JsonClipSet ==
    {Clip(m, 1000, 5000) : m \in JsonMediaLists}
    \cup {Clip(<<<<"a">>>>, sp[1], sp[2]) : sp \in JsonSpans}

\* the clip lists of a ledger: any clip at any position among clips that
\* differ from one position to the next
JsonClipLists ==
    {<<>>} \cup
    {[k \in 1..n |-> IF k = p THEN c ELSE Clip(<<<<"a">>>>, 0 - k, k + 100)] :
        c \in JsonClipSet, p \in 1..MaxJsonClips, n \in 1..MaxJsonClips}

JsonLedgers ==
    {[original_media |-> m, clips |-> c] :
        m \in {<<>>, <<<<"a", "\\">>>>, <<<<"\"">>, <<"a">>>>, <<<<"xFF">>>>},
        c \in JsonClipLists}

JsonInit ==
    /\ \E l \in JsonLedgers : j_in = Some(l)
    /\ j_write = "none" /\ j_file = None /\ j_back = None
    /\ TextIdle /\ StemIdle /\ LookupIdle /\ SelectIdle /\ RunIdle /\ CutIdle
    /\ WhisperIdle /\ WriteIdle

\* Clips::write: to_string fails for a path that is not UTF-8, before the
\* file is created
ClipsWriteJsonError ==
    /\ j_write = "none"
    /\ to_string(Unwrap(j_in)) = None
    /\ j_write' = "json_err"
    /\ UNCHANGED <<j_in, j_file, j_back, notJson>>

\* File::create fails: no file
ClipsWriteIoError ==
    /\ j_write = "none"
    /\ to_string(Unwrap(j_in)) # None
    /\ j_write' = "io_err"
    /\ UNCHANGED <<j_in, j_file, j_back, notJson>>

\* the text is written
ClipsWriteOk ==
    /\ j_write = "none"
    /\ to_string(Unwrap(j_in)) # None
    /\ j_write' = "ok"
    /\ j_file' = to_string(Unwrap(j_in))
    /\ UNCHANGED <<j_in, j_back, notJson>>

\* Clips::read of the file written
ClipsRead ==
    /\ j_write = "ok"
    /\ j_back = None
    /\ j_back' = Some(from_str(Unwrap(j_file)))
    /\ UNCHANGED <<j_in, j_write, j_file, notJson>>

JsonNext ==
    \/ ClipsWriteJsonError
    \/ ClipsWriteIoError
    \/ ClipsWriteOk
    \/ ClipsRead

SpecJson == JsonInit /\ [][JsonNext]_vars

--------------------------------------------------------------------------
(* eaf.rs: select_tier and select_annotation; files.rs: confirm.           *)
(* A tier is [tokenized, parent]: whether it is tokenized itself and the    *)
(* position of its parent tier in eaf.tiers (0: no parent).  An annotation *)
(* has ts, the pair of Options that Annotation::ts_val returns.            *)

\* if let (Some(ts1), Some(ts2)) = annotation.ts_val()
HasTimeValues(annotation) == IsSome(annotation.ts[1]) /\ IsSome(annotation.ts[2])

\* a mutant: the parents are not looked at
IsTokenizedItself(tiers, k) == tiers[k].tokenized

\* eaf.is_tokenized(&t.tier_id, true): the tier or one of its parents is
\* tokenized
RECURSIVE IsTokenized(_, _)
IsTokenized(tiers, k) ==
    \/ tiers[k].tokenized
    \/ tiers[k].parent # 0 /\ IsTokenized(tiers, tiers[k].parent)

\* str::parse::<usize>: an optional '+' and at least one decimal digit
\* (the lines of the model are far too short to overflow a usize)
ParseUsize(str) ==
    LET digits == IF str # <<>> /\ Head(str) = "+" THEN Tail(str) ELSE str
    IN  IF digits = <<>> \/ \E k \in 1..Len(digits) : ~IsDigit(digits[k])
        THEN None
        ELSE Some(ScanDigits(digits, 1, 0).val)

\* what one pass of a prompt loop does with the line it read
Returns(value) == [kind |-> "return", value |-> value, msg |-> "none"]

Rejects(msg) == [kind |-> "message", value |-> 0, msg |-> msg]

Panics == [kind |-> "panic", value |-> 0, msg |-> "none"]

\* i - 1 on a usize, the index both selectors compute: with overflow checks
\* (the debug profile) 0 - 1 panics; without them (the release profile) it
\* wraps to usize::MAX, which is past the end of any Vec
Underflows(i, overflow_checks) == i = 0 /\ overflow_checks

\* eaf.tiers.get(i-1) and tier.annotations.get(i-1) where i - 1 did not
\* panic: the 1-based position of the item found, if any
GetBefore(items, i) ==
    IF i # 0 /\ i - 1 < Len(items) THEN Some(i) ELSE None

\* select_tier, lines 41-50: the arm Ok(i) of the match on the parsed line
select_tier_number(tiers, no_tokenized, i, overflow_checks) ==
    IF Underflows(i, overflow_checks) THEN Panics
    ELSE LET got == GetBefore(tiers, i)
         IN  IF got = None THEN Rejects("No such tier.")
             ELSE IF IsTokenized(tiers, Unwrap(got)) /\ no_tokenized
             THEN Rejects("or one of its parents is tokenized.")
             ELSE Returns(Unwrap(got))

\* select_tier, lines 40-53: the match on the parsed line
select_tier_line(tiers, no_tokenized, buffer, overflow_checks) ==
    LET parsed == ParseUsize(TrimEnd(buffer))
    IN  IF parsed = None THEN Rejects("Not a number.")
        ELSE select_tier_number(tiers, no_tokenized, Unwrap(parsed), overflow_checks)

\* select_annotation, lines 60-73: no_ts collects the 0-based indices i of
\* the annotations without time values
no_ts(annotations) ==
    {k - 1 : k \in {j \in 1..Len(annotations) : ~HasTimeValues(annotations[j])}}

\* select_annotation, lines 82-91: the arm Ok(i) of the match on the parsed
\* line; no_ts.contains(&i) tests the number as it was entered
select_annotation_number(annotations, i, overflow_checks) ==
    IF i \in no_ts(annotations) THEN Rejects("Annotation has no timestamp.")
    ELSE IF Underflows(i, overflow_checks) THEN Panics
    ELSE LET got == GetBefore(annotations, i)
         IN  IF got = None THEN Rejects("No such tier.")
             ELSE Returns(Unwrap(got))

\* select_annotation, lines 81-93: the match on the parsed line
select_annotation_line(annotations, buffer, overflow_checks) ==
    LET parsed == ParseUsize(TrimEnd(buffer))
    IN  IF parsed = None THEN Rejects("Not a number.")
        ELSE select_annotation_number(annotations, Unwrap(parsed), overflow_checks)

\* char::to_lowercase, for the letters of the model
ToLowerChar(c) ==
    CASE c = "Y" -> "y"
      [] c = "E" -> "e"
      [] c = "S" -> "s"
      [] c = "N" -> "n"
      [] c = "O" -> "o"
      [] OTHER   -> c

to_lowercase(str) == [k \in 1..Len(str) |-> ToLowerChar(str[k])]

\* confirm, lines 16-23: the match on the line
confirm_line(buffer) ==
    LET answer == Trim(to_lowercase(buffer))
    IN  CASE answer \in {<<"y">>, <<"y", "e", "s">>} -> Returns(TRUE)
          [] answer \in {<<"n">>, <<"n", "o">>}      -> Returns(FALSE)
          [] OTHER -> Rejects("Enter y/yes or n/no")

\* one pass of the loop of the prompt function of cfg
PromptLine(cfg, buffer) ==
    CASE cfg.fn = "select_tier" ->
            select_tier_line(cfg.tiers, cfg.no_tokenized, buffer, cfg.overflow_checks)
      [] cfg.fn = "select_annotation" ->
            select_annotation_line(cfg.annotations, buffer, cfg.overflow_checks)
      [] OTHER -> confirm_line(buffer)

--------------------------------------------------------------------------
(* Specification of the prompts: the function and what it lists are drawn  *)
(* in Init; every pass of its loop is one step that reads a line.          *)

\* the tier lists of n tiers: the parent of a tier is an earlier tier
TierLists(n) ==
    {t \in [1..n -> [tokenized : BOOLEAN, parent : 0..n]] :
        \A k \in 1..n : t[k].parent < k}

\* a tokenized tier, a tier below it and a tier below that one
ChainOfTiers ==
    << [tokenized |-> TRUE, parent |-> 0],
       [tokenized |-> FALSE, parent |-> 1],
       [tokenized |-> FALSE, parent |-> 2] >>

TimeValues == {<<None, None>>, <<Some(0), None>>, <<Some(0), Some(100)>>}

AnnotationLists(n) == [1..n -> [ts : TimeValues]]

PromptConfigs ==
    {[fn |-> "select_tier", tiers |-> t, no_tokenized |-> f, annotations |-> <<>>,
      overflow_checks |-> c] :
        t \in UNION {TierLists(n) : n \in 0..MaxItems} \cup {ChainOfTiers},
        f \in BOOLEAN, c \in BOOLEAN}
    \cup
    {[fn |-> "select_annotation", tiers |-> <<>>, no_tokenized |-> FALSE,
      annotations |-> a, overflow_checks |-> c] :
        a \in UNION {AnnotationLists(n) : n \in 0..MaxItems}, c \in BOOLEAN}
    \cup
    {[fn |-> "confirm", tiers |-> <<>>, no_tokenized |-> FALSE,
      annotations |-> <<>>, overflow_checks |-> c] : c \in BOOLEAN}

\* what the user types at a selector: a short text and a line feed
NumberBodies ==
    {<<>>, <<"x">>, <<"+">>, <<" ">>} \cup
    UNION {{<<d>>, <<"+", d>>, <<d, " ">>, <<" ", d>>, <<"0", d>>, <<d, "x">>,
            <<"+", d, " ">>} : d \in {DigitChars[n + 1] : n \in 0..(MaxItems + 1)}}

NumberLines ==
    {body \o <<"\n">> : body \in {b \in NumberBodies : Len(b) <= MaxLineLen}}

\* what the user types at confirm
AnswerLines ==
    {<<"y", "\n">>, <<"Y", "\n">>, <<"y", "e", "s", "\n">>,
     <<" ", "Y", "E", "S", " ", "\r", "\n">>, <<"n", "\n">>, <<"N", "o", "\n">>,
     <<"\n">>, <<"x", "\n">>, <<"y", "n", "\n">>, <<"y", "e", "\n">>, <<"n">>}

LinesFor(cfg) == IF cfg.fn = "confirm" THEN AnswerLines ELSE NumberLines

SelectInit ==
    /\ \E cfg \in PromptConfigs : s_cfg = Some(cfg)
    /\ s_pc = "prompt"
    /\ s_ret = None /\ s_line = None /\ s_msg = "none"
    /\ s_eof = FALSE /\ s_n = 0
    /\ TextIdle /\ StemIdle /\ LookupIdle /\ JsonIdle /\ RunIdle /\ CutIdle
    /\ WhisperIdle /\ WriteIdle

\* the effect of a pass of the loop on the buffer read
AfterLine(buffer) ==
    LET did == PromptLine(Unwrap(s_cfg), buffer)
    IN  /\ s_line' = Some(buffer)
        /\ s_msg' = did.msg
        /\ s_pc' = CASE did.kind = "return" -> "returned"
                     [] did.kind = "panic"  -> "panicked"
                     [] OTHER               -> "prompt"
        /\ s_ret' = IF did.kind = "return" THEN Some(did.value) ELSE None

\* print!, flush, read_line Ok(n) with a line the user typed, and the match
ReadLine ==
    /\ s_pc = "prompt" /\ ~s_eof /\ s_n < MaxPrompts
    /\ \E buffer \in LinesFor(Unwrap(s_cfg)) : AfterLine(buffer)
    /\ s_n' = s_n + 1
    /\ UNCHANGED <<s_cfg, s_eof, notSelect>>

\* read_line at end-of-file: Ok(0), the buffer stays empty, and the match
\* runs on the empty buffer
ReadEof ==
    /\ s_pc = "prompt"
    /\ s_eof' = TRUE
    /\ AfterLine(<<>>)
    /\ UNCHANGED <<s_cfg, s_n, notSelect>>

\* flush or read_line returns Err: `?` returns it to the caller
ReadIoError ==
    /\ s_pc = "prompt"
    /\ s_pc' = "io_error"
    /\ s_line' = None /\ s_msg' = "none"
    /\ UNCHANGED <<s_cfg, s_ret, s_eof, s_n, notSelect>>

SelectNext ==
    \/ ReadLine
    \/ ReadEof
    \/ ReadIoError

SpecSelect == SelectInit /\ [][SelectNext]_vars

--------------------------------------------------------------------------
(* clips.rs: run, the extractor.                                           *)
(* A document (Eaf) has media, the linked media files, and tiers.  A media *)
(* file is [stem, ext, abs_exists, rel]: its file stem and extension (an   *)
(* Option), whether its absolute path exists, and its relative path:       *)
(* "none", "missing" or "exists".  A tier is [tokenized, parent,           *)
(* annotations].  An output path is [tier, idx, stem, ext]: the tier's     *)
(* subdirectory, the number in `annotstem`, the media file's stem and      *)
(* extension.                                                              *)

\* line 242: a tier of more annotations is listed only after a confirmation
ListAllThreshold == 40

\* a mutant: a tier of as many annotations as the threshold is asked about
AsksBeforeListingFrom(len) == len >= ListAllThreshold

\* line 242: if len > 40
AsksBeforeListing(len) == len > ListAllThreshold

\* a mutant: an annotation as long as the threshold is dropped too
BatchKeepsLonger(annotation, min_dur) ==
    /\ HasTimeValues(annotation)
    /\ IsSome(min_dur) =>
         Unwrap(min_dur) < Unwrap(annotation.ts[2]) - Unwrap(annotation.ts[1])

\* lines 267-283: the closure of filter_map returns Some for the annotation
BatchKeeps(annotation, min_dur) ==
    /\ HasTimeValues(annotation)
    /\ IsSome(min_dur) =>
         ~(Unwrap(min_dur) > Unwrap(annotation.ts[2]) - Unwrap(annotation.ts[1]))

\* lines 257, 275, 279: the boundary of the annotation at position k; the
\* position stands for its id and value
Boundary(annotations, k) ==
    [start |-> Unwrap(annotations[k].ts[1]), end |-> Unwrap(annotations[k].ts[2]),
     a |-> k]

\* lines 264-285: filter_map(..).collect() over the annotations from
\* position k on
RECURSIVE BatchBoundaries(_, _, _)
BatchBoundaries(annotations, min_dur, k) ==
    IF k > Len(annotations) THEN <<>>
    ELSE (IF BatchKeeps(annotations[k], min_dur)
          THEN <<Boundary(annotations, k)>> ELSE <<>>)
         \o BatchBoundaries(annotations, min_dur, k + 1)

\* lines 274, 278: durations.push(len) for every boundary kept
BatchDurations(boundaries) ==
    [j \in 1..Len(boundaries) |-> boundaries[j].end - boundaries[j].start]

\* a mutant: the relative path is tried first
ResolveOneRelativeFirst(m, dryrun) ==
    IF m.rel = "exists" THEN Some([stem |-> m.stem, ext |-> m.ext, from |-> "rel"])
    ELSE IF m.abs_exists THEN Some([stem |-> m.stem, ext |-> m.ext, from |-> "abs"])
    ELSE IF dryrun THEN Some([stem |-> m.stem, ext |-> m.ext, from |-> "abs"])
    ELSE None

\* lines 180-199: what one pass of the loop over media pushes, None if it
\* aborts the run
ResolveOne(m, dryrun) ==
    IF m.abs_exists THEN Some([stem |-> m.stem, ext |-> m.ext, from |-> "abs"])
    ELSE IF m.rel = "exists" THEN Some([stem |-> m.stem, ext |-> m.ext, from |-> "rel"])
    ELSE IF dryrun THEN Some([stem |-> m.stem, ext |-> m.ext, from |-> "abs"])
    ELSE None

\* lines 171-201: Option of media_process_paths, with the error otherwise
ResolveAll(media, dryrun) ==
    IF media = <<>> /\ ~dryrun THEN [err |-> "No linked media files", paths |-> <<>>]
    ELSE IF \E k \in 1..Len(media) : ResolveOne(media[k], dryrun) = None
    THEN [err |-> "Failed to locate linked files.", paths |-> <<>>]
    ELSE [err |-> "none",
          paths |-> [k \in 1..Len(media) |-> Unwrap(ResolveOne(media[k], dryrun))]]

\* line 185: canonicalize() is reached for some media file
Canonicalizes(media, dryrun) ==
    \E k \in 1..Len(media) :
        /\ ~media[k].abs_exists /\ media[k].rel = "exists"
        /\ \A j \in 1..(k - 1) : ResolveOne(media[j], dryrun) # None

\* line 350: outpath
OutPath(tier, idx, media_in) ==
    [tier |-> tier, idx |-> idx, stem |-> media_in.stem, ext |-> Unwrap(media_in.ext)]

\* a mutant: the cut is made whatever the answer
MediaPassOverwrites(exists, answer, result) ==
    [cut |-> TRUE, err |-> IF result = "err" THEN "Failed to extract" ELSE "none"]

\* a mutant: a failed cut is passed over
MediaPassGoesOn(exists, answer, result) ==
    IF exists /\ answer = "no" THEN [cut |-> FALSE, err |-> "User aborted process."]
    ELSE IF exists /\ answer = "error" THEN [cut |-> FALSE, err |-> "Failed to read input"]
    ELSE [cut |-> TRUE, err |-> "none"]

\* lines 357-380, not a dry run: whether FFmpeg::extract_timespan is called
\* and the error run returns, given outpath.exists(), what confirm returned
\* and what extract_timespan returned
MediaPass(exists, answer, result) ==
    IF exists /\ answer = "no" THEN [cut |-> FALSE, err |-> "User aborted process."]
    ELSE IF exists /\ answer = "error" THEN [cut |-> FALSE, err |-> "Failed to read input"]
    ELSE [cut |-> TRUE, err |-> IF result = "err" THEN "Failed to extract" ELSE "none"]

\* what confirm can return: Ok(true), Ok(false) or Err
ConfirmAnswers ==
    {IF confirm_line(buffer).value THEN "yes" ELSE "no" :
        buffer \in {l \in AnswerLines : confirm_line(l).kind = "return"}}
    \cup {"error"}

--------------------------------------------------------------------------
(* Specification of the extractor: the arguments, the document and the     *)
(* directories that exist are drawn in Init; every action is a stretch of   *)
(* run between two things it asks of the file system, the user or ffmpeg.  *)

Timed(start, end) == [ts |-> <<Some(start), Some(end)>>]

Untimed == [ts |-> <<None, None>>]

\* annotations of 100, 250 and 500 ms
ThreeTimed == <<Timed(0, 100), Timed(100, 350), Timed(400, 900)>>

\* an annotation of 250 ms, one without time values, one with a start only,
\* one that ends before it starts
Mixed == <<Timed(0, 250), Untimed, [ts |-> <<Some(0), None>>], Timed(500, 400)>>

\* a tier longer than ListAllThreshold: two annotations with time values,
\* the others without
LongTier ==
    [k \in 1..(ListAllThreshold + 1) |-> IF k <= 2 THEN Timed(k * 100, k * 300) ELSE Untimed]

\* a tier as long as ListAllThreshold: the last annotation has time
\* values, the others have none
FullTier ==
    [k \in 1..ListAllThreshold |->
        IF k = ListAllThreshold THEN Timed(100, 400) ELSE Untimed]

TierKinds ==
    << [tokenized |-> FALSE, parent |-> 0, annotations |-> ThreeTimed],
       [tokenized |-> FALSE, parent |-> 0, annotations |-> Mixed],
       [tokenized |-> TRUE, parent |-> 0, annotations |-> <<>>],
       [tokenized |-> FALSE, parent |-> 0, annotations |-> LongTier],
       [tokenized |-> FALSE, parent |-> 0, annotations |-> FullTier] >>

MediaKinds ==
    << [stem |-> "a", ext |-> Some("wav"), abs_exists |-> TRUE, rel |-> "exists"],
       [stem |-> "a", ext |-> Some("wav"), abs_exists |-> FALSE, rel |-> "exists"],
       [stem |-> "b", ext |-> Some("mp4"), abs_exists |-> FALSE, rel |-> "missing"],
       [stem |-> "c", ext |-> None, abs_exists |-> TRUE, rel |-> "none"],
       [stem |-> "d", ext |-> Some("mp4"), abs_exists |-> TRUE, rel |-> "none"] >>

\* the lists of n items that run through kinds from item o on
Runs(kinds, n) ==
    {[k \in 1..n |-> kinds[((o + k - 2) % Len(kinds)) + 1]] : o \in 1..Len(kinds)}

Documents ==
    {[media |-> m, tiers |-> t] :
        m \in UNION {Runs(MediaKinds, n) : n \in 0..MaxMedia},
        t \in UNION {Runs(TierKinds, n) : n \in 0..MaxTiers}}

MinDurations == {None, Some(200), Some(250)}

RunArgs ==
    {[dryrun |-> d, single |-> g, extract_all |-> a, min_dur |-> min, eaf |-> doc] :
        d \in BOOLEAN, g \in BOOLEAN, a \in BOOLEAN, min \in MinDurations,
        doc \in Documents}

Init ==
    /\ \E args \in RunArgs :
        /\ r_cfg = Some(args)
        /\ r_dirs \in {{}, {0}, 0..Len(args.eaf.tiers)}
    /\ r_pc = "start" /\ r_err = "none" /\ r_new = {}
    /\ r_media = <<>> /\ r_tiers = <<>> /\ r_t = 0
    /\ r_bounds = <<>> /\ r_idx = 0 /\ r_m = 0
    /\ r_clip = None /\ r_tier_clips = None /\ r_durations = <<>>
    /\ r_cuts = <<>> /\ r_last = None /\ r_written = <<>> /\ r_clips = None
    /\ TextIdle /\ StemIdle /\ LookupIdle /\ JsonIdle /\ SelectIdle /\ CutIdle
    /\ WhisperIdle /\ WriteIdle

args == Unwrap(r_cfg)

eaf == args.eaf

\* the tier of the current pass of the loop over tiers: its position in the
\* document and the tier
tier_pos == r_tiers[r_t]

tier == eaf.tiers[tier_pos]

\* return Err(..)
Fails(err) == r_pc' = "failed" /\ r_err' = err

\* a mutant: a missing directory is made in a dry run too
EnsuredInDryRunToo(dir) ==
    IF dir \in r_dirs
    THEN UNCHANGED <<r_dirs, r_new>>
    ELSE r_dirs' = r_dirs \cup {dir} /\ r_new' = r_new \cup {dir}

\* lines 136-146 and 224-234: the directory exists, or it is a dry run, or
\* create_dir_all makes it
Ensured(dir) ==
    IF args.dryrun \/ dir \in r_dirs
    THEN UNCHANGED <<r_dirs, r_new>>
    ELSE r_dirs' = r_dirs \cup {dir} /\ r_new' = r_new \cup {dir}

\* lines 135-146
CreateOutdir ==
    /\ r_pc = "start"
    /\ Ensured(0)
    /\ r_pc' = "read"
    /\ UNCHANGED <<r_cfg, r_clips, r_err, r_media, r_tiers, r_t, r_bounds, r_idx, r_m, r_clip,
                   r_tier_clips, r_durations, r_cuts, r_last, r_written, notRun>>

\* lines 138-143: create_dir_all returns Err
CreateOutdirFails ==
    /\ r_pc = "start" /\ ~args.dryrun /\ 0 \notin r_dirs
    /\ Fails("Failed to create")
    /\ UNCHANGED <<r_cfg, r_clips, r_dirs, r_new, r_media, r_tiers, r_t, r_bounds, r_idx, r_m,
                   r_clip, r_tier_clips, r_durations, r_cuts, r_last, r_written, notRun>>

\* lines 160-201: Eaf::read returns the document, and the linked media are
\* looked for
ReadEaf ==
    /\ r_pc = "read"
    /\ LET resolved == ResolveAll(eaf.media, args.dryrun)
       IN  IF resolved.err = "none"
           THEN r_media' = resolved.paths /\ r_pc' = "select" /\ r_err' = r_err
           ELSE r_media' = r_media /\ Fails(resolved.err)
    /\ UNCHANGED <<r_cfg, r_clips, r_dirs, r_new, r_tiers, r_t, r_bounds, r_idx, r_m, r_clip,
                   r_tier_clips, r_durations, r_cuts, r_last, r_written, notRun>>

\* lines 160-166: Eaf::read returns Err
ReadEafFails ==
    /\ r_pc = "read"
    /\ Fails("Error parsing")
    /\ UNCHANGED <<r_cfg, r_clips, r_dirs, r_new, r_media, r_tiers, r_t, r_bounds, r_idx, r_m,
                   r_clip, r_tier_clips, r_durations, r_cuts, r_last, r_written, notRun>>

\* line 185: canonicalize() returns Err
CanonicalizeFails ==
    /\ r_pc = "read"
    /\ Canonicalizes(eaf.media, args.dryrun)
    /\ Fails("canonicalize")
    /\ UNCHANGED <<r_cfg, r_clips, r_dirs, r_new, r_media, r_tiers, r_t, r_bounds, r_idx, r_m,
                   r_clip, r_tier_clips, r_durations, r_cuts, r_last, r_written, notRun>>

\* a mutant: the tiers are taken last to first
AllTiersReversed(tiers) == [k \in 1..Len(tiers) |-> Len(tiers) + 1 - k]

\* lines 204-205: eaf.tiers, as the positions of the tiers in the document
AllTiers(tiers) == [k \in 1..Len(tiers) |-> k]

\* a mutant: the ledger of the tier before is carried on
TierClipsCarriedOn(clips, previous) ==
    IF IsSome(previous) THEN Unwrap(previous) ELSE clips

\* line 295: let mut tier_clips = clips.to_owned()
TierClips(clips, previous) == clips

\* lines 204-205 and 219: all tiers; clips
TakeAllTiers ==
    /\ r_pc = "select" /\ args.extract_all
    /\ r_tiers' = AllTiers(eaf.tiers)
    /\ r_clips' = Some(with_media(eaf.media))
    /\ r_pc' = "tier"
    /\ UNCHANGED <<r_cfg, r_err, r_dirs, r_new, r_media, r_t, r_bounds, r_idx, r_m,
                   r_clip, r_tier_clips, r_durations, r_cuts, r_last, r_written, notRun>>

\* lines 207-208 and 219: select_tier(&eaf, true) returns a tier, or
\* panics; clips
SelectTier ==
    /\ r_pc = "select" /\ ~args.extract_all
    /\ \E i \in 0..(Len(eaf.tiers) + 1), overflow_checks \in BOOLEAN :
         LET did == select_tier_number(eaf.tiers, TRUE, i, overflow_checks)
         IN  /\ did.kind # "message"
             /\ IF did.kind = "return"
                THEN /\ r_tiers' = <<did.value>> /\ r_pc' = "tier"
                     /\ r_clips' = Some(with_media(eaf.media))
                ELSE /\ r_tiers' = r_tiers /\ r_pc' = "panicked"
                     /\ r_clips' = r_clips
    /\ UNCHANGED <<r_cfg, r_err, r_dirs, r_new, r_media, r_t, r_bounds, r_idx, r_m,
                   r_clip, r_tier_clips, r_durations, r_cuts, r_last, r_written, notRun>>

\* lines 209-212: select_tier returns Err
SelectTierFails ==
    /\ r_pc = "select" /\ ~args.extract_all
    /\ Fails("Failed to extract tier")
    /\ UNCHANGED <<r_cfg, r_clips, r_dirs, r_new, r_media, r_tiers, r_t, r_bounds, r_idx, r_m,
                   r_clip, r_tier_clips, r_durations, r_cuts, r_last, r_written, notRun>>

\* lines 221-234 and, in batch mode, 263-295: the next pass of the loop
\* over tiers begins
BeginTier ==
    /\ r_pc = "tier" /\ r_t < Len(r_tiers)
    /\ r_t' = r_t + 1
    /\ LET pos == r_tiers[r_t + 1]
           annotations == eaf.tiers[pos].annotations
           boundaries == BatchBoundaries(annotations, args.min_dur, 1)
       IN  /\ Ensured(pos)
           /\ IF args.single
              THEN /\ r_pc' = IF AsksBeforeListing(Len(annotations))
                              THEN "list" ELSE "pick"
                   /\ UNCHANGED <<r_bounds, r_durations, r_tier_clips>>
              ELSE /\ r_pc' = "boundary"
                   /\ r_bounds' = boundaries
                   /\ r_durations' = r_durations \o BatchDurations(boundaries)
                   /\ r_tier_clips' = Some(TierClips(Unwrap(r_clips), r_tier_clips))
    /\ r_idx' = 0 /\ r_m' = 0
    /\ UNCHANGED <<r_cfg, r_clips, r_err, r_media, r_tiers, r_clip, r_cuts, r_last,
                   r_written, notRun>>

\* lines 226-231: create_dir_all returns Err
BeginTierFails ==
    /\ r_pc = "tier" /\ r_t < Len(r_tiers)
    /\ ~args.dryrun /\ r_tiers[r_t + 1] \notin r_dirs
    /\ r_t' = r_t + 1
    /\ Fails("Failed to create")
    /\ UNCHANGED <<r_cfg, r_clips, r_dirs, r_new, r_media, r_tiers, r_bounds, r_idx, r_m,
                   r_clip, r_tier_clips, r_durations, r_cuts, r_last, r_written, notRun>>

\* lines 242-246: confirm about listing a long tier
ConfirmList ==
    /\ r_pc = "list"
    /\ \E answer \in ConfirmAnswers :
         CASE answer = "yes" -> r_pc' = "pick" /\ r_err' = r_err
           [] answer = "no"  -> Fails("User aborted process.")
           [] OTHER          -> Fails("confirm")
    /\ UNCHANGED <<r_cfg, r_clips, r_dirs, r_new, r_media, r_tiers, r_t, r_bounds, r_idx, r_m,
                   r_clip, r_tier_clips, r_durations, r_cuts, r_last, r_written, notRun>>

\* lines 248-261 and 295: select_annotation returns an annotation, or
\* panics
SelectAnnotation ==
    /\ r_pc = "pick"
    /\ \E i \in 0..(Len(tier.annotations) + 1), overflow_checks \in BOOLEAN :
         LET did == select_annotation_number(tier.annotations, i, overflow_checks)
         IN  /\ did.kind # "message"
             /\ IF did.kind = "panic"
                THEN r_pc' = "panicked" /\ UNCHANGED <<r_err, r_bounds, r_tier_clips>>
                ELSE IF HasTimeValues(tier.annotations[did.value])
                THEN /\ r_bounds' = <<Boundary(tier.annotations, did.value)>>
                     /\ r_tier_clips' = Some(TierClips(Unwrap(r_clips), r_tier_clips))
                     /\ r_pc' = "boundary" /\ r_err' = r_err
                ELSE /\ Fails("Annotation has no time values specified")
                     /\ UNCHANGED <<r_bounds, r_tier_clips>>
    /\ UNCHANGED <<r_cfg, r_clips, r_dirs, r_new, r_media, r_tiers, r_t, r_idx, r_m, r_clip,
                   r_durations, r_cuts, r_last, r_written, notRun>>

\* lines 250-253: select_annotation returns Err
SelectAnnotationFails ==
    /\ r_pc = "pick"
    /\ Fails("Failed to extract annotation")
    /\ UNCHANGED <<r_cfg, r_clips, r_dirs, r_new, r_media, r_tiers, r_t, r_bounds, r_idx, r_m,
                   r_clip, r_tier_clips, r_durations, r_cuts, r_last, r_written, notRun>>

\* lines 298-330: the next pass of the loop over boundaries begins
BeginBoundary ==
    /\ r_pc = "boundary" /\ r_idx < Len(r_bounds)
    /\ r_idx' = r_idx + 1
    /\ r_clip' = Some(ClipTs(Clip(<<>>, 0, 0),
                             r_bounds[r_idx + 1].start, r_bounds[r_idx + 1].end))
    /\ r_m' = 0
    /\ r_pc' = "media"
    /\ UNCHANGED <<r_cfg, r_clips, r_err, r_dirs, r_new, r_media, r_tiers, r_t, r_bounds,
                   r_tier_clips, r_durations, r_cuts, r_last, r_written, notRun>>

\* the media file of the next pass of the loop over media_process_paths
media_in == r_media[r_m + 1]

outpath == OutPath(tier_pos, r_idx, media_in)

\* outpath.exists() can be true: nothing is in a directory this run made
\* but what it cut there
CanExist(path) ==
    \/ path.tier \notin r_new
    \/ \E k \in 1..Len(r_cuts) : r_cuts[k].path = path

\* lines 385-388: the media file has no extension
NoExtension ==
    /\ r_pc = "media" /\ r_m < Len(r_media)
    /\ media_in.ext = None
    /\ Fails("Could not determine file type")
    /\ UNCHANGED <<r_cfg, r_clips, r_dirs, r_new, r_media, r_tiers, r_t, r_bounds, r_idx, r_m,
                   r_clip, r_tier_clips, r_durations, r_cuts, r_last, r_written, notRun>>

\* lines 333-355: a pass of the loop over media_process_paths in a dry run
ShowMedia ==
    /\ r_pc = "media" /\ r_m < Len(r_media)
    /\ media_in.ext # None /\ args.dryrun
    /\ r_clip' = Some(ClipAdd(Unwrap(r_clip), outpath))
    /\ \E exists \in BOOLEAN :
         r_last' = Some([path |-> outpath, existed |-> exists, answer |-> "none",
                         result |-> "none"])
    /\ r_m' = r_m + 1
    /\ UNCHANGED <<r_cfg, r_clips, r_pc, r_err, r_dirs, r_new, r_media, r_tiers, r_t, r_bounds,
                   r_idx, r_tier_clips, r_durations, r_cuts, r_written, notRun>>

\* lines 333-383: a pass of the loop over media_process_paths otherwise
CutMedia ==
    /\ r_pc = "media" /\ r_m < Len(r_media)
    /\ media_in.ext # None /\ ~args.dryrun
    /\ r_clip' = Some(ClipAdd(Unwrap(r_clip), outpath))
    /\ \E exists \in {e \in BOOLEAN : e => CanExist(outpath)},
          answer \in ConfirmAnswers \cup {"none"}, result \in {"ok", "err", "none"} :
         LET pass == MediaPass(exists, answer, result)
         IN  /\ answer = "none" <=> ~exists
             /\ result = "none" <=> ~pass.cut
             /\ r_last' = Some([path |-> outpath, existed |-> exists,
                                answer |-> answer, result |-> result])
             /\ r_cuts' = IF pass.cut
                          THEN Append(r_cuts, [path |-> outpath, media |-> r_m + 1])
                          ELSE r_cuts
             /\ IF pass.err = "none"
                THEN r_m' = r_m + 1 /\ UNCHANGED <<r_pc, r_err>>
                ELSE r_m' = r_m /\ Fails(pass.err)
    /\ UNCHANGED <<r_cfg, r_clips, r_dirs, r_new, r_media, r_tiers, r_t, r_bounds, r_idx,
                   r_tier_clips, r_durations, r_written, notRun>>

\* line 391: tier_clips.add(&clip)
EndBoundary ==
    /\ r_pc = "media" /\ r_m = Len(r_media)
    /\ r_tier_clips' = Some(ClipsAdd(Unwrap(r_tier_clips), Unwrap(r_clip)))
    /\ r_pc' = "boundary"
    /\ UNCHANGED <<r_cfg, r_clips, r_err, r_dirs, r_new, r_media, r_tiers, r_t, r_bounds, r_idx,
                   r_m, r_clip, r_durations, r_cuts, r_last, r_written, notRun>>

\* lines 394-396: tier_clips.write(..) into the subdirectory of the tier
WriteLedger ==
    /\ r_pc = "boundary" /\ r_idx = Len(r_bounds)
    /\ tier_pos \in r_dirs
    /\ r_written' = Append(r_written, [tier |-> tier_pos, clips |-> Unwrap(r_tier_clips)])
    /\ r_pc' = "tier"
    /\ UNCHANGED <<r_cfg, r_clips, r_err, r_dirs, r_new, r_media, r_tiers, r_t, r_bounds, r_idx,
                   r_m, r_clip, r_tier_clips, r_durations, r_cuts, r_last, notRun>>

\* line 395: tier_clips.write(..) returns Err, as it does when the
\* subdirectory does not exist
WriteLedgerFails ==
    /\ r_pc = "boundary" /\ r_idx = Len(r_bounds)
    /\ Fails("write")
    /\ UNCHANGED <<r_cfg, r_clips, r_dirs, r_new, r_media, r_tiers, r_t, r_bounds, r_idx, r_m,
                   r_clip, r_tier_clips, r_durations, r_cuts, r_last, r_written, notRun>>

\* line 399: durations.iter().max().unwrap_or(&0)
LongestClip(durations) ==
    IF durations = <<>> THEN 0
    ELSE CHOOSE d \in {durations[k] : k \in 1..Len(durations)} :
             \A k \in 1..Len(durations) : durations[k] <= d

\* line 400: durations.iter().min().unwrap_or(&0)
ShortestClip(durations) ==
    IF durations = <<>> THEN 0
    ELSE CHOOSE d \in {durations[k] : k \in 1..Len(durations)} :
             \A k \in 1..Len(durations) : durations[k] >= d

\* lines 399-402: the loop over tiers is over
Summary ==
    /\ r_pc = "tier" /\ r_t = Len(r_tiers)
    /\ r_pc' = "done"
    /\ UNCHANGED <<r_cfg, r_clips, r_err, r_dirs, r_new, r_media, r_tiers, r_t, r_bounds, r_idx,
                   r_m, r_clip, r_tier_clips, r_durations, r_cuts, r_last, r_written,
                   notRun>>

Next ==
    \/ CreateOutdir
    \/ CreateOutdirFails
    \/ ReadEaf
    \/ ReadEafFails
    \/ CanonicalizeFails
    \/ TakeAllTiers
    \/ SelectTier
    \/ SelectTierFails
    \/ BeginTier
    \/ BeginTierFails
    \/ ConfirmList
    \/ SelectAnnotation
    \/ SelectAnnotationFails
    \/ BeginBoundary
    \/ NoExtension
    \/ ShowMedia
    \/ CutMedia
    \/ EndBoundary
    \/ WriteLedger
    \/ WriteLedgerFails
    \/ Summary

Spec == Init /\ [][Next]_vars

------------------------------------------------------------------------------
(* ffmpeg.rs: FFmpeg::extract_timespan.  A path is the pair of Options   *)
(* that file_stem() and extension() return for it; an output path made   *)
(* from the media path also has the time span put into its file name.    *)

\* lines 61-77: outpath, or the error that `?` returns
CutOutpath(media_path, start_ms, end_ms, custom_outpath) ==
    IF IsSome(custom_outpath)
    THEN [err |-> "none", path |-> custom_outpath]
    ELSE IF media_path.stem = None
    THEN [err |-> "FileNameMissing", path |-> None]
    ELSE IF media_path.ext = None
    THEN [err |-> "FileExtensionMissing", path |-> None]
    ELSE [err |-> "none",
          path |-> Some([stem |-> media_path.stem, span |-> Some(<<start_ms, end_ms>>),
                         ext |-> media_path.ext])]

\* what became of the subprocess: Command::output() returns Err when it
\* cannot be started, and Ok(Output) when it has exited, whatever its status
ProcessOutcomes == {"spawn_error", "exit_success", "exit_failure"}

\* lines 52-93.  end_ms - start_ms is a u64 subtraction: with overflow
\* checks it panics when end_ms < start_ms, without them it wraps
extract_timespan(media_path, start_ms, end_ms, custom_outpath, overflow_checks, process) ==
    LET out == CutOutpath(media_path, start_ms, end_ms, custom_outpath)
    IN  IF out.err # "none"
        THEN [kind |-> "err", err |-> out.err, path |-> None, process |-> "not_run"]
        ELSE IF end_ms < start_ms /\ overflow_checks
        THEN [kind |-> "panic", err |-> "none", path |-> None, process |-> "not_run"]
        ELSE IF process = "spawn_error"
        THEN [kind |-> "err", err |-> "io", path |-> None, process |-> process]
        ELSE [kind |-> "ok", err |-> "none", path |-> out.path, process |-> process]

--------------------------------------------------------------------------
(* Specification of the media cut: the arguments are drawn in Init, the   *)
(* call is one step, and the subprocess ends as the environment has it.   *)

CutMediaPaths ==
    {[stem |-> Some("talk"), ext |-> Some("wav")],
     [stem |-> Some("talk"), ext |-> None],
     [stem |-> None, ext |-> None]}

CutTimes == {0, 100, 250}

CutOutpaths == {None, Some([stem |-> Some("clip"), span |-> None, ext |-> Some("wav")])}

CutInputs ==
    [media_path : CutMediaPaths, start_ms : CutTimes, end_ms : CutTimes,
     custom_outpath : CutOutpaths, overflow_checks : BOOLEAN]

CutInit ==
    /\ \E in \in CutInputs : f_in = Some(in)
    /\ f_out = None
    /\ TextIdle /\ StemIdle /\ LookupIdle /\ JsonIdle /\ SelectIdle /\ RunIdle
    /\ WhisperIdle /\ WriteIdle

CallExtractTimespan ==
    /\ f_in # None /\ f_out = None
    /\ \E process \in ProcessOutcomes :
         LET in == Unwrap(f_in)
         IN  f_out' = Some(extract_timespan(in.media_path, in.start_ms, in.end_ms,
                                            in.custom_outpath, in.overflow_checks,
                                            process))
    /\ UNCHANGED <<f_in, notCut>>

CutNext == CallExtractTimespan

SpecCut == CutInit /\ [][CutNext]_vars

--------------------------------------------------------------------------
(* The ledger as run writes it, looked up as whisper2eaf does: the output  *)
(* paths are composed as at clips.rs:303-350 and get_timestamps is called  *)
(* with one of them, or with one of them and further extensions.           *)

\* line 350: tier_outdir.join(format!("{mediastem}_{annotstem}.{ext}"))
OutPathString(tier_id, mediastem, annotstem, ext) ==
    <<"o", "/">> \o tier_id \o <<"/">> \o mediastem \o <<"_">> \o annotstem
        \o <<".">> \o ext

\* lines 298-391: the record of the boundary at position k of a tier
TripRecord(k, tier_id, media, f) ==
    Clip([m \in 1..Len(media) |->
             OutPathString(tier_id, Unwrap(FileStem(media[m])),
                           Annotstem(k - 1, tier_id, <<"a", "7">>, <<>>,
                                     LookupSpans(k)[1], LookupSpans(k)[2], f),
                           Unwrap(Extension(media[m])))],
         LookupSpans(k)[1], LookupSpans(k)[2])

\* lines 219-395: the ledger of a tier of n boundaries
TripLedger(n, tier_id, media, f) ==
    [original_media |-> media,
     clips |-> [k \in 1..n |-> TripRecord(k, tier_id, media, f)]]

Str_audio_wav_wav == <<"a","u","d","i","o",".","w","a","v",".","w","a","v">>

Str_talk_mp4 == <<"t","a","l","k","2",".","m","p","4">>

TripMediaLists == {<<Str_talk_wav>>, <<Str_audio_wav_wav>>, <<Str_talk_wav, Str_talk_mp4>>}

TripTierIds == {<<"t", "1">>, <<"t", ".", "1">>}

TripFlags ==
    {[use_t_id |-> t, use_a_id |-> FALSE, use_val |-> FALSE, use_time |-> u,
      ascii_path |-> FALSE, max_len |-> 20] : t \in BOOLEAN, u \in BOOLEAN}

\* what a caller appends to the path of a clip
TripSuffixes == {<<>>, <<".","w","o","r","d","s",".","j","s","o","n">>}

TripInit ==
    /\ \E n \in 1..MaxLookupClips, tier_id \in TripTierIds, media \in TripMediaLists,
          f \in TripFlags, suffix \in TripSuffixes :
         \E k \in 1..n, m \in 1..Len(media) :
            LET ledger == TripLedger(n, tier_id, media, f)
            IN  q_in = Some([ledger |-> ledger,
                             path |-> ledger.clips[k].media[m] \o suffix,
                             record |-> k])
    /\ q_out = None
    /\ TextIdle /\ StemIdle /\ JsonIdle /\ SelectIdle /\ RunIdle /\ CutIdle
    /\ WhisperIdle /\ WriteIdle

SpecTrip == TripInit /\ [][LookupNext]_vars

--------------------------------------------------------------------------
(* whisper/whisper.rs and whisper/whisper_timestamped.rs: join, offset and *)
(* from_paths.  A transcript is [text, segments]; text is an Option for    *)
(* WhisperJson and a string for WhisperTsJson; a segment is [file, id,     *)
(* start, end, words], a word is [start, end], times in milliseconds.      *)

RECURSIVE ConcatAll(_)
\* text.join("")
ConcatAll(strs) == IF strs = <<>> THEN <<>> ELSE Head(strs) \o ConcatAll(Tail(strs))

RECURSIVE JoinLoop(_, _, _)
\* whisper.rs lines 77-83: for w in others.iter_mut(), the text pushed when
\* there is one and the segments appended
JoinLoop(others, text, segments) ==
    IF others = <<>> THEN [text |-> text, segments |-> segments]
    ELSE JoinLoop(Tail(others), text \o Head(others).text,
                  segments \o Head(others).segments)

\* whisper.rs lines 71-92, WhisperJson::join: the loop over others is
\* inside `if let Some(self_txt) = self.text.as_deref()`
WhisperJsonJoin(self, others) ==
    LET joined == IF IsSome(self.text)
                  THEN JoinLoop(others, <<Unwrap(self.text)>>, self.segments)
                  ELSE [text |-> <<>>, segments |-> self.segments]
    IN  [text |-> Some(ConcatAll(joined.text)), segments |-> joined.segments]

RECURSIVE TsJoinLoop(_, _, _)
\* whisper_timestamped.rs lines 92-96
TsJoinLoop(others, text, segments) ==
    IF others = <<>> THEN [text |-> text, segments |-> segments]
    ELSE TsJoinLoop(Tail(others), Append(text, Head(others).text),
                    segments \o Head(others).segments)

\* whisper_timestamped.rs lines 89-103, WhisperTsJson::join
WhisperTsJsonJoin(self, others) ==
    LET joined == TsJoinLoop(others, <<self.text>>, self.segments)
    IN  [text |-> ConcatAll(joined.text), segments |-> joined.segments]

Join(kind, self, others) ==
    IF kind = "WhisperJson" THEN WhisperJsonJoin(self, others)
    ELSE WhisperTsJsonJoin(self, others)

\* whisper.rs lines 64-69 and 379-388: every segment moved by the offset
Offset(json, offset) ==
    [json EXCEPT !.segments =
        [k \in 1..Len(json.segments) |->
            [json.segments[k] EXCEPT !.start = @ + offset, !.end = @ + offset]]]

\* whisper.rs lines 43-61, whisper_timestamped.rs lines 112-130: files is
\* what read returns for each path and what get_timestamps returns for it
from_paths(kind, files) ==
    IF files = <<>> THEN [kind |-> "err", msg |-> "No JSON-paths provived"]
    ELSE IF \E i \in 1..Len(files) : files[i].ts = None
    THEN [kind |-> "err", msg |-> "Failed to extract timestamps"]
    ELSE LET json == [i \in 1..Len(files) |->
                         Offset(files[i].json, Unwrap(files[i].ts)[1])]
         IN  [kind |-> "ok",
              value |-> IF Len(files) > 1
                        THEN Join(kind, json[1], Tail(json))
                        ELSE json[1]]

--------------------------------------------------------------------------
(* Specification of the transcripts: the files are drawn in Init, one step *)
(* joins them or reads them with from_paths.                               *)

WhisperKinds == {"WhisperJson", "WhisperTsJson"}

FileLetters == <<"a", "b", "c", "d", "e", "f">>

\* the segments of the i-th file: n segments of one second
SegmentsOf(i, n) ==
    [k \in 1..n |-> [file |-> i, id |-> k - 1, start |-> (k - 1) * 1000,
                     end |-> k * 1000, words |-> <<>>]]

\* the i-th file: with or without text, n segments
Transcript(kind, i, shape) ==
    [text |-> IF kind = "WhisperTsJson" THEN <<FileLetters[i]>>
              ELSE IF shape.text THEN Some(<<FileLetters[i]>>) ELSE None,
     segments |-> SegmentsOf(i, shape.n)]

TranscriptShapes(kind) ==
    [text : IF kind = "WhisperTsJson" THEN {TRUE} ELSE BOOLEAN, n : 0..MaxSegments]

\* the clip of the i-th file starts at i * 10 seconds
ClipSpan(i) == <<i * 10000, i * 10000 + 5000>>

WhisperInit ==
    /\ \E fn \in {"join", "from_paths"}, kind \in WhisperKinds,
          len \in 0..MaxFiles :
         \E shapes \in [1..len -> TranscriptShapes(kind)], missing \in 0..len :
            /\ fn = "join" => len > 0 /\ missing = 0
            /\ w_in = Some([fn |-> fn, kind |-> kind,
                            files |-> [i \in 1..len |->
                                [json |-> Transcript(kind, i, shapes[i]),
                                 ts |-> IF i = missing THEN None
                                        ELSE Some(ClipSpan(i))]]])
    /\ w_out = None
    /\ TextIdle /\ StemIdle /\ LookupIdle /\ JsonIdle /\ SelectIdle /\ RunIdle
    /\ CutIdle /\ WriteIdle

w_files == Unwrap(w_in).files

\* self.join(others)
CallJoin ==
    /\ IsSome(w_in) /\ w_out = None /\ Unwrap(w_in).fn = "join"
    /\ w_out' = Some([kind |-> "ok",
                      value |-> Join(Unwrap(w_in).kind, w_files[1].json,
                                     [i \in 1..(Len(w_files) - 1) |-> w_files[i + 1].json])])
    /\ UNCHANGED <<w_in, notWhisper>>

\* Self::from_paths(paths, clips)
CallFromPaths ==
    /\ IsSome(w_in) /\ w_out = None /\ Unwrap(w_in).fn = "from_paths"
    /\ w_out' = Some(from_paths(Unwrap(w_in).kind, w_files))
    /\ UNCHANGED <<w_in, notWhisper>>

WhisperNext == CallJoin \/ CallFromPaths

SpecJoin == WhisperInit /\ [][WhisperNext]_vars

--------------------------------------------------------------------------
(* whisper/whisper.rs and whisper/whisper_timestamped.rs: to_eaf.  An      *)
(* annotation is [id, ts1, ts2, ref] with Options for the time slot        *)
(* references and the annotation reference; format!("a{}", n) is <<"a",    *)
(* n>> and format!("ts{}", n) is <<"ts", n>>.                              *)

AnnotationId(annotation_index) == <<"a", annotation_index>>

TimeSlotId(timeslot_index) == <<"ts", timeslot_index>>

\* whisper.rs lines 312-325 and 396-410, whisper_timestamped.rs 266-279
\* and 345-358: WhisperSegment::to_alignable, WhisperWord::to_alignable
to_alignable(annotation_index, timeslot_index) ==
    [id |-> AnnotationId(annotation_index),
     ts1 |-> Some(TimeSlotId(timeslot_index)),
     ts2 |-> Some(TimeSlotId(timeslot_index + 1)),
     ref |-> None]

\* whisper.rs lines 368-381, whisper_timestamped.rs 313-325
to_referred(annotation_index, annotation_ref_index) ==
    [id |-> AnnotationId(annotation_index),
     ts1 |-> None, ts2 |-> None,
     ref |-> Some(AnnotationId(annotation_ref_index))]

\* whisper.rs lines 346-351 and 413-418
to_timeslots(start_index, start, end) ==
    << [id |-> TimeSlotId(start_index), value |-> start],
       [id |-> TimeSlotId(start_index + 1), value |-> end] >>

RECURSIVE WordsLoop(_, _, _, _, _)
\* whisper.rs lines 333-341: for word in self.words.iter()
WordsLoop(words, start_index_annotation, start_index_timeslot, annots, ts) ==
    IF words = <<>> THEN [annots |-> annots, ts |-> ts]
    ELSE WordsLoop(Tail(words), start_index_annotation, start_index_timeslot,
             Append(annots, to_alignable(start_index_annotation + Len(annots),
                                         start_index_timeslot + Len(ts))),
             ts \o to_timeslots(start_index_timeslot + Len(ts),
                                Head(words).start, Head(words).end))

\* whisper.rs lines 327-344, whisper_timestamped.rs 295-311
words_to_alignable(segment, start_index_annotation, start_index_timeslot) ==
    WordsLoop(segment.words, start_index_annotation, start_index_timeslot,
              <<>>, <<>>)

\* the tiers of referred annotations: avg_logprob, compression_ratio, id,
\* no_speech_prob, seek, temperature; or confidence
RefTiers(kind) == IF kind = "WhisperJson" THEN 6 ELSE 1

ConfIndexBeforeWords(base_annot_idx, words_len, r) == base_annot_idx + r

\* whisper.rs lines 158 and 165-170: a_id_conf_index_base + r;
\* whisper_timestamped.rs line 210: base_annot_idx + words.len() + 1
ConfIndex(base_annot_idx, words_len, r) == base_annot_idx + words_len + r

RECURSIVE SumLen(_)
SumLen(vectors) == IF vectors = <<>> THEN 0 ELSE Len(Head(vectors)) + SumLen(Tail(vectors))

\* whisper.rs lines 141-171, whisper_timestamped.rs 193-217: one pass of
\* `for segment in self.segments.iter()`
EafPass(kind, built, segment) ==
    LET base_annot_idx == 1 + Len(built.main) + Len(built.words) + SumLen(built.refs)
        base_ts_idx == 1 + Len(built.timeslots)
        w == words_to_alignable(segment, base_annot_idx + 1, base_ts_idx + 2)
    IN  [main |-> Append(built.main, to_alignable(base_annot_idx, base_ts_idx)),
         words |-> built.words \o w.annots,
         refs |-> [r \in 1..RefTiers(kind) |->
                      Append(built.refs[r],
                             to_referred(ConfIndex(base_annot_idx, Len(w.annots), r),
                                         base_annot_idx))],
         timeslots |-> built.timeslots
                           \o to_timeslots(base_ts_idx, segment.start, segment.end)
                           \o w.ts,
         pass |-> built.pass + 1,
         pc |-> "loop"]

--------------------------------------------------------------------------
(* Specification of to_eaf: the segments are drawn in Init, every pass of  *)
(* the loop over them is a step, and so is the assembly of the document.   *)

\* the words of a segment that starts at start: a tenth of a second each
EafWords(start, n) ==
    [j \in 1..n |-> [start |-> start + (j - 1) * 100, end |-> start + j * 100]]

EafSegments(len, words) ==
    [k \in 1..len |-> [file |-> 1, id |-> k - 1, start |-> (k - 1) * 1000,
                       end |-> k * 1000,
                       words |-> EafWords((k - 1) * 1000, words[k])]]

EafInit ==
    /\ \E kind \in WhisperKinds, len \in 0..MaxSegments :
         \E words \in [1..len -> 0..MaxWords] :
            w_in = Some([fn |-> "to_eaf", kind |-> kind,
                         segments |-> EafSegments(len, words)])
    /\ w_out = None
    /\ TextIdle /\ StemIdle /\ LookupIdle /\ JsonIdle /\ SelectIdle /\ RunIdle
    /\ CutIdle /\ WriteIdle

\* whisper.rs lines 114-139: the empty vectors
EafStart ==
    /\ IsSome(w_in) /\ w_out = None
    /\ w_out' = Some([main |-> <<>>, words |-> <<>>,
                      refs |-> [r \in 1..RefTiers(Unwrap(w_in).kind) |-> <<>>],
                      timeslots |-> <<>>, pass |-> 0, pc |-> "loop"])
    /\ UNCHANGED <<w_in, notWhisper>>

\* whisper.rs lines 141-171
EafSegment ==
    /\ IsSome(w_out) /\ Unwrap(w_out).pc = "loop"
    /\ Unwrap(w_out).pass < Len(Unwrap(w_in).segments)
    /\ w_out' = Some(EafPass(Unwrap(w_in).kind, Unwrap(w_out),
                             Unwrap(w_in).segments[Unwrap(w_out).pass + 1]))
    /\ UNCHANGED <<w_in, notWhisper>>

\* whisper.rs lines 173-241: the tiers and the time order of the document
EafBuild ==
    /\ IsSome(w_out) /\ Unwrap(w_out).pc = "loop"
    /\ Unwrap(w_out).pass = Len(Unwrap(w_in).segments)
    /\ w_out' = Some([Unwrap(w_out) EXCEPT !.pc = "built"])
    /\ UNCHANGED <<w_in, notWhisper>>

EafNext == EafStart \/ EafSegment \/ EafBuild

SpecEaf == EafInit /\ [][EafNext]_vars

--------------------------------------------------------------------------
(* files.rs: writefile, with the loop of confirm.  The file at path is an  *)
(* Option of its content; every read_line of confirm is a step.            *)

WriteDecisionAlways(exists, confirmed) == TRUE

\* lines 34-38: let write = if path.exists() { confirm(..)? } else { true }
WriteDecision(exists, confirmed) == IF exists THEN confirmed ELSE TRUE

\* what File::create and write_all can do: both succeed, create fails, or
\* the file is created and write_all fails
WriteOutcomes == {"ok", "create_err", "write_err"}

\* the lines read_line can put in the buffer; the empty one at end-of-file
WritefileLines == AnswerLines \cup {<<>>}

WritefileContents == {<<"n", "e", "w">>, <<>>}

WritefileFiles == {None, Some(<<"o", "l", "d">>), Some(<<>>)}

WriteInit ==
    /\ \E content \in WritefileContents, file \in WritefileFiles :
          /\ o_in = Some([content |-> content, before |-> file])
          /\ o_file = file
    /\ o_pc = "start" /\ o_ret = "none" /\ o_line = None /\ o_n = 0
    /\ TextIdle /\ StemIdle /\ LookupIdle /\ JsonIdle /\ SelectIdle /\ RunIdle
    /\ CutIdle /\ WhisperIdle

\* lines 34-38: path.exists(); confirm is called when it does
WritefileExists ==
    /\ o_pc = "start"
    /\ o_pc' = IF IsSome(o_file) THEN "confirm"
               ELSE IF WriteDecision(FALSE, FALSE) THEN "write" ELSE "returned"
    /\ o_ret' = IF ~IsSome(o_file) /\ ~WriteDecision(FALSE, FALSE)
                THEN "Ok(false)" ELSE o_ret
    /\ UNCHANGED <<o_in, o_file, o_line, o_n, notWrite>>

\* lines 10-23 and 35: one pass of the loop of confirm, read_line returning
\* Ok; the answer decides whether writefile writes, returns or asks again
WritefileConfirm ==
    /\ o_pc = "confirm" /\ o_n < MaxPrompts
    /\ \E buffer \in WritefileLines :
          LET r == confirm_line(buffer)
          IN  /\ o_line' = Some(buffer)
              /\ IF r.kind = "return"
                 THEN IF WriteDecision(TRUE, r.value)
                      THEN o_pc' = "write" /\ o_ret' = o_ret
                      ELSE o_pc' = "returned" /\ o_ret' = "Ok(false)"
                 ELSE o_pc' = "confirm" /\ o_ret' = o_ret
    /\ o_n' = o_n + 1
    /\ UNCHANGED <<o_in, o_file, notWrite>>

\* lines 12, 14 and 35: flush or read_line returns Err, and `?` returns it
WritefileConfirmFails ==
    /\ o_pc = "confirm"
    /\ o_pc' = "returned" /\ o_ret' = "Err"
    /\ UNCHANGED <<o_in, o_file, o_line, o_n, notWrite>>

\* lines 40-44: File::create(&path)?, outfile.write_all(content)?, Ok(true)
WritefileWrite ==
    /\ o_pc = "write"
    /\ \E outcome \in WriteOutcomes :
          CASE outcome = "ok" ->
                  o_file' = Some(Unwrap(o_in).content) /\ o_ret' = "Ok(true)"
            [] outcome = "create_err" ->
                  o_file' = o_file /\ o_ret' = "Err"
            [] OTHER ->
                  /\ \E written \in 0..Len(Unwrap(o_in).content) :
                        o_file' = Some(SubSeq(Unwrap(o_in).content, 1, written))
                  /\ o_ret' = "Err"
    /\ o_pc' = "returned"
    /\ UNCHANGED <<o_in, o_line, o_n, notWrite>>

WriteNext ==
    \/ WritefileExists
    \/ WritefileConfirm
    \/ WritefileConfirmFails
    \/ WritefileWrite

SpecWrite == WriteInit /\ [][WriteNext]_vars

----------------------------------------------------------------------
(* Claims about the file name composition (SpecStem) *)

Str_annotation_ == <<"a","n","n","o","t","a","t","i","o","n","_">>

\* the numeric value of a string of decimal digits (-1 if it is none)
RECURSIVE DecodeDigits(_)
DecodeDigits(s) ==
    IF s = <<>> THEN 0
    ELSE LET d == {k \in 0..9 : DigitChars[k + 1] = s[Len(s)]}
             r == DecodeDigits(SubSeq(s, 1, Len(s) - 1))
         IN  IF d = {} \/ r < 0 THEN -1 ELSE 10 * r + (CHOOSE k \in d : TRUE)

\* an optional component: '_' and the text, only if its flag is enabled
OptionalPart(flag, text) == IF flag THEN <<"_">> \o text ELSE <<>>

\* the composition the claim describes, for input i and composed name out:
\* 'annotation_', four digits that read as the 1-based index, then the
\* enabled components in the order tier id, annotation id, value, time
ComposedAsClaimed(i, out) ==
    /\ Len(out) >= 15
    /\ SubSeq(out, 1, 11) = Str_annotation_
    /\ DecodeDigits(SubSeq(out, 12, 15)) = i.idx + 1
    /\ SubSeq(out, 16, Len(out)) =
          OptionalPart(i.flags.use_t_id, i.tier_id)
          \o OptionalPart(i.flags.use_a_id, i.a_id)
          \o OptionalPart(i.flags.use_val,
                          ProcessedVal(i.val, i.flags.ascii_path, i.flags.max_len))
          \o OptionalPart(i.flags.use_time,
                          FormatInt(i.span[1]) \o <<"-">> \o FormatInt(i.span[2]))

\* the example of the claim: index 3, tier 'utterance', annotation id 'a7',
\* value 'Hello, world!', max length 20, ASCII-only off, 1200-3400
IsHelloExample(i) ==
    /\ i.idx = 2
    /\ i.tier_id = Str_utterance
    /\ i.a_id = <<"a","7">>
    /\ i.val = Str_HelloWorld
    /\ i.span = <<1200, 3400>>
    /\ i.flags = [use_t_id |-> TRUE, use_a_id |-> TRUE, use_val |-> TRUE,
                  use_time |-> TRUE, ascii_path |-> FALSE, max_len |-> 20]

\* 'annotation_0003_utterance_a7_Hello world_1200-3400'
Str_HelloClaimed ==
    <<"a","n","n","o","t","a","t","i","o","n","_","0","0","0","3","_","u","t","t","e","r","a","n","c","e","_","a","7","_","H","e","l","l","o"," ","w","o","r","l","d","_","1","2","0","0","-","3","4","0","0">>

\* 'annotation_0003_utterance_a7_Hello_world_1200-3400'
Str_HelloComposed ==
    <<"a","n","n","o","t","a","t","i","o","n","_","0","0","0","3","_","u","t","t","e","r","a","n","c","e","_","a","7","_","H","e","l","l","o","_","w","o","r","l","d","_","1","2","0","0","-","3","4","0","0">>

\* C2 as stated: the composition, and the example yields the name with
\* 'Hello world' (a space between the two words).
C2_CompositionAsStated ==
    IsSome(n_out) =>
        /\ ComposedAsClaimed(Unwrap(n_in), Unwrap(n_out))
        /\ IsHelloExample(Unwrap(n_in)) => Unwrap(n_out) = Str_HelloClaimed

\* C2 amended: the composition is as described, and the example yields
\* 'annotation_0003_utterance_a7_Hello_world_1200-3400': the whitespace
\* substitute '_' is always passed to the sanitizer, so the space left after
\* removing ',' and '!' becomes '_'.
C2_Composition ==
    IsSome(n_out) =>
        /\ ComposedAsClaimed(Unwrap(n_in), Unwrap(n_out))
        /\ IsHelloExample(Unwrap(n_in)) => Unwrap(n_out) = Str_HelloComposed

\* the example's name has been composed
C2_Witness ==
    /\ IsSome(n_out)
    /\ IsHelloExample(Unwrap(n_in))
    /\ Unwrap(n_out) = Str_HelloComposed

--------------------------------------------------------------------------
(* Claims about the ledger lookup (SpecLookup) *)

\* the prefixes of a file name that are left when extension-like suffixes
\* ('.' and a dot-free text) are taken off its end
StrippedPrefixes(name) ==
    {SubSeq(name, 1, k) : k \in {j \in 0..Len(name) :
                                    j = Len(name) \/ name[j + 1] = "."}}

\* the bare stem: the first of these, from the longest on, that has no
\* extension left
BareStem(name) ==
    LET done == {p \in StrippedPrefixes(name) : Extension(p) = None}
    IN  CHOOSE p \in done : \A r \in done : Len(r) <= Len(p)

\* the records of a ledger holding a media path with the file stem
RecordsWithStem(ledger, stem) ==
    {k \in 1..Len(ledger.clips) :
        \E m \in 1..Len(ledger.clips[k].media) :
            FileStem(ledger.clips[k].media[m]) = Some(stem)}

\* C3: get_timestamps returns the (start, end) of the first record, in
\* ledger order, with a media path whose file stem is the bare stem of the
\* queried file name (all its extension-like suffixes stripped), and nothing
\* when there is no such record; 'talk.words.wav.json' finds the record
\* holding 'talk.wav' at 1000-5000.
C3_LookupByStem ==
    IsSome(q_out) =>
        LET q == Unwrap(q_in)
            r == Unwrap(q_out)
        IN  /\ FileName(q.path) = None => r = None
            /\ FileName(q.path) # None =>
                 LET hits == RecordsWithStem(q.ledger,
                                             BareStem(Unwrap(FileName(q.path))))
                 IN  /\ hits = {} => r = None
                     /\ \A k \in hits :
                            (\A j \in hits : k <= j) =>
                                r = Some(<<q.ledger.clips[k].start,
                                           q.ledger.clips[k].end>>)
            /\ (/\ q.path = Str_talk_words_wav_json
                /\ Len(q.ledger.clips) >= 1
                /\ q.ledger.clips[1] = Clip(<<Str_talk_wav>>, 1000, 5000))
               => r = Some(<<1000, 5000>>)

\* the example: 'talk.words.wav.json' looked up in a ledger whose second
\* record holds 'talk.wav' as well, with another time span
C3_Witness ==
    /\ IsSome(q_out)
    /\ Unwrap(q_in).path = Str_talk_words_wav_json
    /\ Unwrap(q_in).ledger.clips =
          <<Clip(<<Str_talk_wav>>, 1000, 5000), Clip(<<Str_talk_wav>>, 0, 100)>>
    /\ Unwrap(q_out) = Some(<<1000, 5000>>)

--------------------------------------------------------------------------
(* Claims about the ledger file (SpecJson) *)

\* what Clips::read returned is the value that was written
ReadBackEqual ==
    IsSome(j_back) =>
        /\ Unwrap(j_back).ok
        /\ Unwrap(j_back).val = Unwrap(j_in)

\* C5 as stated: for any Clips value the write yields a file, and reading
\* it back yields an equal value (a failure to create the file aside).
C5_RoundTripAsStated ==
    /\ j_write # "json_err"
    /\ ReadBackEqual

\* C5 amended: for any Clips value whose paths are all valid Unicode,
\* Clips::write serializes it and Clips::read of the written file yields a
\* structurally equal value; a path that is not valid Unicode makes
\* Clips::write fail before the file is created.
C5_RoundTrip ==
    /\ j_write # "none" =>
          (j_write = "json_err" <=>
              \E path \in LedgerPaths(Unwrap(j_in)) : ~IsUtf8(path))
    /\ j_write = "json_err" => j_file = None
    /\ ReadBackEqual

\* a ledger of two records, with quotes and backslashes in its paths and a
\* negative start, has been written and read back
C5_Witness ==
    /\ IsSome(j_back)
    /\ Unwrap(j_back).ok
    /\ Unwrap(j_back).val = Unwrap(j_in)
    /\ Unwrap(j_in).original_media = <<<<"a", "\\">>>>
    /\ Unwrap(j_in).clips =
          <<Clip(<<<<"a">>, <<"\\", "\"">>>>, 1000, 5000),
            Clip(<<<<"a">>>>, -2, 102)>>

--------------------------------------------------------------------------
(* Claims about the sanitizer (SpecText) *)
\* C10: with len = Some(n), process_string returns at most n characters
\* (Unicode scalar values), whatever the other three options are.
C10_TruncationBound ==
    (IsSome(t_out) /\ IsSome(t_in.len)) => Len(Unwrap(t_out)) <= Unwrap(t_in.len)

\* a call that really cut the value: the input is longer than n, holds
\* non-ASCII and whitespace characters, and every option is set
C10_Witness ==
    /\ IsSome(t_out)
    /\ IsSome(t_in.len) /\ IsSome(t_in.ascii) /\ IsSome(t_in.whitespace)
    /\ IsSome(t_in.regex)
    /\ Len(t_in.value) > Unwrap(t_in.len)
    /\ Unwrap(t_in.len) = 2
    /\ Len(Unwrap(t_out)) = 2
    /\ \E i \in 1..2 : ~is_ascii(t_in.value[i])

\* the string as it stands before the final match: cut, then stripped
BeforeSubstitution ==
    LET truncated == IF IsSome(t_in.len)
                     THEN Truncate(t_in.value, Unwrap(t_in.len))
                     ELSE t_in.value
    IN  IF IsSome(t_in.regex)
        THEN RemoveClass(truncated, Unwrap(t_in.regex))
        ELSE truncated

NoOptions ==
    /\ t_in.ascii = None /\ t_in.whitespace = None
    /\ t_in.regex = None /\ t_in.len = None

\* C11: with no option given, process_string returns its argument
\* unchanged, whitespace at the ends and the empty string included.
C11_NoOptionsNoChange ==
    (IsSome(t_out) /\ NoOptions) => Unwrap(t_out) = t_in.value

C11_Witness ==
    /\ IsSome(t_out) /\ NoOptions
    /\ t_in.value = <<" ", "a", "U00A0">>
    /\ Unwrap(t_out) = <<" ", "a", "U00A0">>

NoEndWhitespace(string) ==
    string = <<>> \/
        (~is_whitespace(string[1]) /\ ~is_whitespace(string[Len(string)]))

\* C12: the steps are cut, strip, trim, substitute; when a length or a
\* pattern is given the result has no whitespace at its ends, also when
\* neither substitute is given.
C12_TrimAfterCutAndStrip ==
    (IsSome(t_out) /\ (IsSome(t_in.len) \/ IsSome(t_in.regex))) =>
        /\ Unwrap(t_out) = IF IsSome(t_in.ascii) \/ IsSome(t_in.whitespace)
                           THEN Substitute(BeforeSubstitution,
                                           t_in.ascii, t_in.whitespace)
                           ELSE Trim(BeforeSubstitution)
        /\ (t_in.ascii = None /\ t_in.whitespace = None) =>
               NoEndWhitespace(Unwrap(t_out))

\* the case of C12 in which the code differs: a length only, and a value
\* that keeps whitespace at its ends after the cut
C12_Divergence ==
    /\ IsSome(t_out)
    /\ t_in.value = <<" ", "a", " ">> /\ t_in.len = Some(3)
    /\ t_in.regex = None /\ t_in.ascii = None /\ t_in.whitespace = None
    /\ Unwrap(t_out) = <<" ", "a", " ">>

\* the result has the characters of the trimmed string, each one mapped
Pointwise(out, trimmed, Map(_)) ==
    /\ Len(out) = Len(trimmed)
    /\ \A i \in 1..Len(trimmed) : out[i] = Map(trimmed[i])

\* C13, as stated: with only the ASCII substitute every whitespace
\* character is kept and every other non-ASCII character is replaced; with
\* only the whitespace substitute every non-ASCII character is kept.
C13_SubstitutionAsStated ==
    IsSome(t_out) =>
        LET out     == Unwrap(t_out)
            trimmed == Trim(BeforeSubstitution)
            a       == Unwrap(t_in.ascii)
            w       == Unwrap(t_in.whitespace)
            Both(c)  == IF is_whitespace(c)
                        THEN (IF is_ascii(w) THEN w ELSE a)
                        ELSE IF is_ascii(c) THEN c ELSE a
            Ascii(c) == IF is_whitespace(c) \/ is_ascii(c) THEN c ELSE a
            White(c) == IF ~is_ascii(c) THEN c
                        ELSE IF is_whitespace(c) THEN w ELSE c
        IN  /\ (IsSome(t_in.ascii) /\ IsSome(t_in.whitespace)) =>
                   Pointwise(out, trimmed, Both)
            /\ (IsSome(t_in.ascii) /\ t_in.whitespace = None) =>
                   Pointwise(out, trimmed, Ascii)
            /\ (t_in.ascii = None /\ IsSome(t_in.whitespace)) =>
                   Pointwise(out, trimmed, White)

\* C13: with both substitutes every whitespace character left after the
\* trim becomes the whitespace substitute and then every non-ASCII
\* character the ASCII substitute; with only the ASCII substitute every
\* non-ASCII character, a non-ASCII whitespace character included, is
\* replaced and nothing else; with only the whitespace substitute every
\* whitespace character, a non-ASCII one included, is replaced and
\* nothing else.
C13_Substitution ==
    IsSome(t_out) =>
        LET out     == Unwrap(t_out)
            trimmed == Trim(BeforeSubstitution)
            a       == Unwrap(t_in.ascii)
            w       == Unwrap(t_in.whitespace)
            Both(c)  == IF is_whitespace(c)
                        THEN (IF is_ascii(w) THEN w ELSE a)
                        ELSE IF is_ascii(c) THEN c ELSE a
            Ascii(c) == IF is_ascii(c) THEN c ELSE a
            White(c) == IF is_whitespace(c) THEN w ELSE c
        IN  /\ (IsSome(t_in.ascii) /\ IsSome(t_in.whitespace)) =>
                   Pointwise(out, trimmed, Both)
            /\ (IsSome(t_in.ascii) /\ t_in.whitespace = None) =>
                   Pointwise(out, trimmed, Ascii)
            /\ (t_in.ascii = None /\ IsSome(t_in.whitespace)) =>
                   Pointwise(out, trimmed, White)

\* only the ASCII substitute, and an interior no-break space, which is
\* whitespace and not ASCII: it is replaced
C13_Witness ==
    /\ IsSome(t_out)
    /\ t_in.value = <<"a", "U00A0", "a">>
    /\ t_in.len = None /\ t_in.regex = None
    /\ t_in.whitespace = None /\ t_in.ascii = Some("_")
    /\ Unwrap(t_out) = <<"a", "_", "a">>

\* the characters of a string that are outside a class, in their order
RECURSIVE Outside(_, _)
Outside(string, class) ==
    IF string = <<>> THEN <<>>
    ELSE IF Head(string) \in class THEN Outside(Tail(string), class)
    ELSE <<Head(string)>> \o Outside(Tail(string), class)

\* the arguments of the extractor's call, for either value of the flag
ExtractorCall ==
    /\ t_in.regex = Some(re2remove) /\ t_in.whitespace = Some("_")
    /\ t_in.ascii \in {None, Some("_")} /\ IsSome(t_in.len)

\* C14: a pattern that is a character class removes all and only the
\* characters of the class, the others keeping their order; with the
\* extractor's arguments no unsafe character is left, whether or not the
\* ASCII substitute is given.
C14_StripPattern ==
    (IsSome(t_out) /\ IsSome(t_in.regex)) =>
        LET class == Unwrap(t_in.regex)
            cut   == IF IsSome(t_in.len)
                     THEN Truncate(t_in.value, Unwrap(t_in.len))
                     ELSE t_in.value
            out   == Unwrap(t_out)
        IN  /\ (t_in.ascii = None /\ t_in.whitespace = None) =>
                   out = Outside(cut, class)
            /\ out = Substitute(Outside(cut, class),
                                t_in.ascii, t_in.whitespace)
            /\ ExtractorCall =>
                   /\ \A i \in 1..Len(out) : out[i] \notin re2remove
                   /\ out = ProcessedVal(t_in.value, IsSome(t_in.ascii),
                                         Unwrap(t_in.len))

\* two characters of the class are removed, with and without the flag
C14_Witness ==
    /\ IsSome(t_out) /\ ExtractorCall
    /\ t_in.value = <<",", "a", ",">>
    /\ t_in.len = Some(3)
    /\ Unwrap(t_out) = <<"a">>

--------------------------------------------------------------------------
(* Claims about the prompts (SpecSelect) *)

\* the number on the line just read, if the line is one
Entered == ParseUsize(TrimEnd(Unwrap(s_line)))

\* a pass of the loop of fn has just run on a line
LineReadBy(fn) ==
    /\ s_cfg # None /\ Unwrap(s_cfg).fn = fn
    /\ s_line # None

\* the line was turned down: a message, and the loop prompts again
Reprompted == s_pc = "prompt" /\ s_msg # "none"

\* the k-th listed item was returned
Selected(k) == s_pc = "returned" /\ s_ret = Some(k)

\* C6, as the specification states it: select_annotation never returns an
\* annotation without both time values; the displayed number of such an
\* annotation is turned down with a message and a new prompt, and the
\* displayed number of an annotation with time values returns that annotation.
\* The code collects the 0-based indices of the untimed annotations and tests
\* the 1-based number entered against them, so this is violated.
C6_TimedAnnotationsOnly ==
    LineReadBy("select_annotation") /\ Entered # None
    /\ Unwrap(Entered) \in 1..Len(Unwrap(s_cfg).annotations)
    => IF HasTimeValues(Unwrap(s_cfg).annotations[Unwrap(Entered)])
       THEN Selected(Unwrap(Entered))
       ELSE Reprompted

\* the item number k may be selected: select_tier refuses tokenized tiers
\* when asked to, select_annotation annotations without time values
Selectable(cfg, k) ==
    IF cfg.fn = "select_tier"
    THEN ~(IsTokenized(cfg.tiers, k) /\ cfg.no_tokenized)
    ELSE HasTimeValues(cfg.annotations[k])

ListedItems(cfg) ==
    IF cfg.fn = "select_tier" THEN Len(cfg.tiers) ELSE Len(cfg.annotations)

\* C7, as the specification states it: in select_tier and select_annotation
\* a line that is not a number, and a number outside 1..=N, 0 included, is
\* turned down with a message and a new prompt (nothing is returned, the
\* loop does not end abnormally), and a number k in 1..=N selects the k-th
\* listed item.  Violated: 0 - 1 on a usize panics in a build with overflow
\* checks.
C7_OutOfRangeReprompts ==
    (LineReadBy("select_tier") \/ LineReadBy("select_annotation"))
    => IF Entered = None \/ Unwrap(Entered) \notin 1..ListedItems(Unwrap(s_cfg))
       THEN Reprompted
       ELSE (Selectable(Unwrap(s_cfg), Unwrap(Entered)) => Selected(Unwrap(Entered)))

\* C8, as the specification states it: once standard input is at end-of-file
\* a waiting prompt ends by returning an I/O error to its caller.  Violated:
\* read_line returns Ok(0) at end-of-file, the empty buffer is matched like
\* any other unusable line, and the loop prompts again.
C8_EofIsAnIoError == s_eof => s_pc = "io_error"

\* the tier k and the tiers above it: its parent, the parent of its
\* parent, and so on
Lineage(tiers, k) ==
    LET up[n \in 0..Len(tiers)] ==
            IF n = 0 THEN {k}
            ELSE up[n - 1] \cup
                 {tiers[j].parent : j \in {i \in up[n - 1] : tiers[i].parent # 0}}
    IN  up[Len(tiers)]

TokenizedLineage(tiers, k) == \E j \in Lineage(tiers, k) : tiers[j].tokenized

\* C18: with no_tokenized set select_tier never returns a tier that is
\* tokenized or has a tokenized tier above it; the number of such a tier
\* gets a message and a new prompt, never an error; with no_tokenized unset
\* the number of any listed tier returns that tier.
C18_TokenizedTiersRejected ==
    LET cfg == Unwrap(s_cfg)
    IN  /\ (s_cfg # None /\ cfg.fn = "select_tier" /\ s_pc = "returned") =>
            /\ IsSome(s_ret) /\ Unwrap(s_ret) \in 1..Len(cfg.tiers)
            /\ cfg.no_tokenized => ~TokenizedLineage(cfg.tiers, Unwrap(s_ret))
        /\ (LineReadBy("select_tier") /\ Entered # None
                /\ Unwrap(Entered) \in 1..Len(cfg.tiers)) =>
            IF cfg.no_tokenized /\ TokenizedLineage(cfg.tiers, Unwrap(Entered))
            THEN Reprompted /\ s_msg = "or one of its parents is tokenized."
                 /\ s_ret = None
            ELSE Selected(Unwrap(Entered))

\* the tier entered is not tokenized, nor is its parent, but the parent of
\* its parent is: it is turned down
C18_Witness ==
    /\ LineReadBy("select_tier") /\ Unwrap(s_cfg).no_tokenized
    /\ Unwrap(s_cfg).tiers = ChainOfTiers
    /\ Entered = Some(3)
    /\ Reprompted

--------------------------------------------------------------------------
(* Claims about the extractor (Spec) *)

\* the last pass over a media file called extract_timespan, which
\* returned Err
CutFailed == r_last # None /\ Unwrap(r_last).result = "err"

\* the last pass over a media file found its output path and the user
\* answered no
Declined == r_last # None /\ Unwrap(r_last).answer = "no"

\* no ledger has been written for the tier being processed
NoLedgerOfTier == \A k \in 1..Len(r_written) : r_written[k].tier # tier_pos

\* C1: when a call of extract_timespan returns an error in a run that is
\* not a dry run, run returns an error: it makes no further call (the
\* failed call stays the last one), writes no ledger for the tier it is
\* processing, and leaves the ledgers written for earlier tiers as they are.
C1_FailedCutIsFatal ==
    [][/\ CutFailed' =>
            /\ ~args.dryrun
            /\ r_pc' = "failed" /\ r_err' = "Failed to extract"
            /\ r_cuts'[Len(r_cuts')].path = Unwrap(r_last').path
            /\ r_written' = r_written
            /\ NoLedgerOfTier'
       /\ r_pc = "failed" => r_cuts' = r_cuts /\ r_written' = r_written]_vars

\* C1 witness: the failed call is not the first of the run, and an earlier
\* tier's ledger has been written
C1_Witness ==
    /\ CutFailed
    /\ Len(r_cuts) >= 2
    /\ r_written # <<>>

\* what C4 says the boundary list holds: the annotation at position k has
\* both time values and, if there is a threshold, lasts at least that long
MeetsThreshold(annotations, k, min_dur) ==
    /\ IsSome(annotations[k].ts[1]) /\ IsSome(annotations[k].ts[2])
    /\ \/ min_dur = None
       \/ Unwrap(annotations[k].ts[2]) - Unwrap(annotations[k].ts[1]) >= Unwrap(min_dur)

\* run is in a pass of the loop over tiers in batch mode and has the
\* boundaries of the tier
HasBatchBoundaries ==
    /\ r_cfg # None /\ ~args.single
    /\ r_t >= 1
    /\ r_err # "Failed to create"

\* C4: in batch mode the boundary list of a tier holds, in tier order,
\* exactly the annotations with both time values whose duration is at least
\* the minimum duration, if one is given (a duration equal to it is kept);
\* annotations without time values are left out and are no error.
C4_MinimumDuration ==
    HasBatchBoundaries =>
        /\ \A j \in 1..Len(r_bounds) :
            /\ r_bounds[j].a \in 1..Len(tier.annotations)
            /\ MeetsThreshold(tier.annotations, r_bounds[j].a, args.min_dur)
            /\ r_bounds[j].start = Unwrap(tier.annotations[r_bounds[j].a].ts[1])
            /\ r_bounds[j].end = Unwrap(tier.annotations[r_bounds[j].a].ts[2])
        /\ \A i, j \in 1..Len(r_bounds) : i < j => r_bounds[i].a < r_bounds[j].a
        /\ \A k \in 1..Len(tier.annotations) :
            MeetsThreshold(tier.annotations, k, args.min_dur)
            => \E j \in 1..Len(r_bounds) : r_bounds[j].a = k
        /\ r_err # "Annotation has no time values specified"

\* C4 witness: a tier with an annotation exactly as long as the threshold
\* and annotations without time values; the boundary list holds the former
\* alone
C4_Witness ==
    /\ HasBatchBoundaries
    /\ tier.annotations = Mixed
    /\ args.min_dur = Some(250)
    /\ r_bounds = <<[start |-> 0, end |-> 250, a |-> 1]>>
    /\ r_pc = "tier"

\* C9: when an output path exists and the user answers no to the overwrite
\* prompt, run returns an error at once: extract_timespan is not called
\* for that file or any later one, and no ledger is written for the tier;
\* extract_timespan is called on an existing path after a yes only.
C9_DeclinedOverwriteAborts ==
    [][/\ Declined' =>
            /\ Unwrap(r_last').existed
            /\ r_pc' = "failed" /\ r_err' = "User aborted process."
            /\ r_cuts' = r_cuts
            /\ r_written' = r_written
            /\ NoLedgerOfTier'
       /\ r_cuts' # r_cuts /\ Unwrap(r_last').existed => Unwrap(r_last').answer = "yes"
       /\ r_pc = "failed" => r_cuts' = r_cuts /\ r_written' = r_written]_vars

\* C9 witness: the user declines after cuts have been made and a ledger
\* written
C9_Witness ==
    /\ Declined
    /\ r_cuts # <<>>
    /\ r_written # <<>>

\* the ledgers of the run: the one being filled and the ones written
Ledgers ==
    {r_written[k].clips : k \in 1..Len(r_written)}
        \cup (IF IsSome(r_tier_clips) THEN {Unwrap(r_tier_clips)} ELSE {})

\* C15: every record appended to a ledger, in a dry run too, has
\* end >= start and at least one media path.
C15_RecordInvariant ==
    \A ledger \in Ledgers : \A k \in 1..Len(ledger.clips) :
        /\ ledger.clips[k].end >= ledger.clips[k].start
        /\ ledger.clips[k].media # <<>>

\* the file stem of an output path: "{mediastem}_{annotstem}", where
\* annotstem starts with the number of the boundary
OutStem(path) == <<path.stem, path.idx>>

\* the places of the media paths of a ledger: record and position
MediaPlaces(ledger) ==
    UNION {{<<k, m>> : m \in 1..Len(ledger.clips[k].media)} :
              k \in 1..Len(ledger.clips)}

\* C16: in every ledger the media paths have file stems that differ, within
\* a record and from record to record.
C16_UniqueStems ==
    \A ledger \in Ledgers : \A x, y \in MediaPlaces(ledger) :
        x # y => OutStem(ledger.clips[x[1]].media[x[2]])
                    # OutStem(ledger.clips[y[1]].media[y[2]])

\* the run is past the resolution of the media references
Resolved == r_pc \notin {"start", "read"} /\ r_err \notin
    {"Failed to create", "Error parsing", "No linked media files",
     "Failed to locate linked files.", "canonicalize"}

Locatable(m) == m.abs_exists \/ m.rel = "exists"

\* C17: each media reference, in document order, resolves to the absolute
\* path if it exists, else to the relative path if that exists; else the
\* run fails before any tier when it is not a dry run, and keeps the
\* absolute path in a dry run. So every path handed to the media cut
\* exists, and there is one per reference.
C17_MediaResolution ==
    /\ Resolved =>
        /\ Len(r_media) = Len(eaf.media)
        /\ \A k \in 1..Len(r_media) :
            /\ r_media[k].stem = eaf.media[k].stem
            /\ r_media[k].ext = eaf.media[k].ext
            /\ r_media[k].from =
                   IF eaf.media[k].abs_exists THEN "abs"
                   ELSE IF eaf.media[k].rel = "exists" THEN "rel"
                   ELSE "abs"
            /\ ~Locatable(eaf.media[k]) => args.dryrun
    /\ (~args.dryrun /\ \E k \in 1..Len(eaf.media) : ~Locatable(eaf.media[k])) =>
        /\ ~Resolved
        /\ r_tiers = <<>> /\ r_t = 0 /\ r_cuts = <<>> /\ r_written = <<>>
    /\ \A c \in 1..Len(r_cuts) :
        /\ r_cuts[c].media \in 1..Len(eaf.media)
        /\ Locatable(eaf.media[r_cuts[c].media])

\* a cut from a media file found by its relative path, after one found by
\* its absolute path though its relative path exists too
C17_Witness ==
    /\ ~args.dryrun /\ Len(r_media) = 2
    /\ eaf.media[1].abs_exists /\ eaf.media[1].rel = "exists"
    /\ r_media[1].from = "abs" /\ r_media[2].from = "rel"
    /\ \E c \in 1..Len(r_cuts) : r_cuts[c].media = 2

\* neither a cut nor a ledger has been made for the tier being processed
NothingOfTier ==
    /\ \A c \in 1..Len(r_cuts) : r_cuts[c].path.tier # tier_pos
    /\ NoLedgerOfTier

\* the boundary list is the boundary of one annotation of the tier, which
\* has both time values
OneBoundary ==
    /\ Len(r_bounds) = 1
    /\ r_bounds[1].a \in 1..Len(tier.annotations)
    /\ LET annotation == tier.annotations[r_bounds[1].a]
       IN  /\ annotation.ts[1] = Some(r_bounds[1].start)
           /\ annotation.ts[2] = Some(r_bounds[1].end)

\* C19: in single mode the boundary list of a tier is the one boundary of
\* the selected annotation; a tier of more than 40 annotations is listed
\* after a confirmation only, and one of 40 or fewer without asking; when
\* the user declines, or the selected annotation lacks a time value, run
\* fails before any cut and any ledger of that tier.
C19_SingleAnnotation ==
    [][ /\ (args.single /\ r_pc' \in {"boundary", "media"}) => OneBoundary'
        /\ (args.single /\ r_pc = "tier" /\ r_t' = r_t + 1 /\ r_pc' # "failed") =>
               /\ r_pc' = IF Len(tier'.annotations) > 40 THEN "list" ELSE "pick"
               /\ NothingOfTier'
        /\ (r_pc' \in {"list", "pick"}) => args.single
        /\ (r_pc = "list" /\ r_pc' # "list") =>
               \/ r_pc' = "pick" /\ UNCHANGED <<r_cuts, r_written>>
               \/ /\ r_pc' = "failed"
                  /\ r_err' \in {"User aborted process.", "confirm"}
                  /\ NothingOfTier'
        /\ (r_pc = "pick" /\ r_pc' # "pick") =>
               \/ r_pc' = "boundary" /\ NothingOfTier'
               \/ r_pc' = "panicked" /\ NothingOfTier'
               \/ /\ r_pc' = "failed"
                  /\ r_err' \in {"Annotation has no time values specified",
                                 "Failed to extract annotation"}
                  /\ NothingOfTier'
      ]_vars

\* a cut from the one annotation selected in a tier of exactly 40
\* annotations, which was listed without asking
C19_Witness ==
    /\ args.single /\ ~args.dryrun
    /\ r_t \in 1..Len(r_tiers)
    /\ Len(tier.annotations) = 40
    /\ r_pc = "media" /\ OneBoundary
    /\ r_bounds[1].a = 40
    /\ \E c \in 1..Len(r_cuts) : r_cuts[c].path.tier = tier_pos

\* s is the beginning of t
IsPrefix(s, t) == Len(s) <= Len(t) /\ SubSeq(t, 1, Len(s)) = s

\* the record of the k-th boundary of the tier being processed: its time
\* values and an output path for every resolved media file, in order
RecordOfBoundary(k) ==
    [media |-> [m \in 1..Len(r_media) |->
                   [tier |-> tier_pos, idx |-> k, stem |-> r_media[m].stem,
                    ext |-> Unwrap(r_media[m].ext)]],
     start |-> r_bounds[k].start, end |-> r_bounds[k].end]

\* C21: the ledger of a tier is only appended to; the ledger written for a
\* tier holds one record per boundary of the tier, in order, the k-th with
\* the start and end of the k-th boundary and one output path per resolved
\* media file, in media order.
C21_LedgerContent ==
    [][ /\ (r_t' = r_t /\ r_pc \in {"boundary", "media"} /\ r_pc' # "failed") =>
               /\ IsSome(r_tier_clips) /\ IsSome(r_tier_clips')
               /\ IsPrefix(Unwrap(r_tier_clips).clips, Unwrap(r_tier_clips').clips)
               /\ Len(Unwrap(r_tier_clips').clips) <= Len(Unwrap(r_tier_clips).clips) + 1
        /\ (r_written' # r_written) =>
               /\ IsPrefix(r_written, r_written')
               /\ Len(r_written') = Len(r_written) + 1
               /\ LET last == r_written'[Len(r_written')]
                  IN  /\ last.tier = tier_pos
                      /\ last.clips.original_media = eaf.media
                      /\ Len(last.clips.clips) = Len(r_bounds)
                      /\ \A k \in 1..Len(r_bounds) :
                             last.clips.clips[k] = RecordOfBoundary(k)
      ]_vars

\* a ledger of three records with two output paths each has been written
C21_Witness ==
    /\ r_written # <<>>
    /\ Len(r_written[1].clips.clips) = 3
    /\ \A k \in 1..3 : Len(r_written[1].clips.clips[k].media) = 2
    /\ r_written[1].clips.clips[1].start # r_written[1].clips.clips[2].start

\* C22: the ledger of every tier starts as the base ledger, with no record
\* and the original media of the document; a written ledger holds records
\* of its own tier only; the base ledger stays as it was made.
C22_LedgerIsolation ==
    [][ /\ IsSome(r_clips) =>
               /\ r_clips' = r_clips
               /\ Unwrap(r_clips) = [original_media |-> eaf.media, clips |-> <<>>]
        /\ (r_pc' = "boundary" /\ r_pc \in {"tier", "pick"}) =>
               r_tier_clips' = Some([original_media |-> eaf.media, clips |-> <<>>])
        /\ \A w \in 1..Len(r_written') :
               LET ledger == r_written'[w].clips
               IN  /\ ledger.original_media = eaf.media
                   /\ \A x \in MediaPlaces(ledger) :
                          ledger.clips[x[1]].media[x[2]].tier = r_written'[w].tier
                   /\ \A v \in 1..Len(r_written') :
                          v # w => r_written'[v].tier # r_written'[w].tier
      ]_vars

\* two ledgers have been written, each with records
C22_Witness ==
    /\ Len(r_written) = 2
    /\ r_written[1].clips.clips # <<>> /\ r_written[2].clips.clips # <<>>
    /\ r_written[1].clips.clips[1].media # <<>>
    /\ r_clips = Some([original_media |-> eaf.media, clips |-> <<>>])

\* the cuts of boundary k of a ledger, one per media file, in media order
CutsOfRecord(record) ==
    [m \in 1..Len(record.media) |-> [path |-> record.media[m], media |-> m]]

\* the cuts of the records from the k-th on
RECURSIVE CutsOfRecords(_, _)
CutsOfRecords(records, k) ==
    IF k > Len(records) THEN <<>>
    ELSE CutsOfRecord(records[k]) \o CutsOfRecords(records, k + 1)

\* the cuts of the ledgers from the w-th on
RECURSIVE CutsOfLedgers(_, _)
CutsOfLedgers(written, w) ==
    IF w > Len(written) THEN <<>>
    ELSE CutsOfRecords(written[w].clips.clips, 1) \o CutsOfLedgers(written, w + 1)

\* the number of cuts made for the tier at position pos of the document
CutsOfTier(pos) == Cardinality({c \in 1..Len(r_cuts) : r_cuts[c].path.tier = pos})

\* C23: in a run that is not a dry run and succeeds, the media cut is
\* called once for every boundary and resolved media file, tiers in
\* document order, boundaries in list order, media files in order; the
\* ledger of a tier is written after the last cut of the tier and before
\* the first cut of the next; the summary comes after the last ledger.
C23_ExtractionOrder ==
    [][ ~args.dryrun =>
        /\ r_pc' = "done" =>
               /\ Len(r_written') = Len(r_tiers')
               /\ \A t \in 1..Len(r_tiers') :
                      /\ r_written'[t].tier = r_tiers'[t]
                      /\ \A u \in 1..Len(r_tiers') : t < u => r_tiers'[t] < r_tiers'[u]
                      /\ \A k \in 1..Len(r_written'[t].clips.clips) :
                             /\ Len(r_written'[t].clips.clips[k].media) = Len(r_media')
                             /\ \A m \in 1..Len(r_media') :
                                    r_written'[t].clips.clips[k].media[m].idx = k
               /\ r_cuts' = CutsOfLedgers(r_written', 1)
        /\ r_written' # r_written =>
               /\ r_cuts' = r_cuts
               /\ Len(r_written') = r_t
               /\ CutsOfTier(tier_pos) = Len(r_bounds) * Len(r_media)
               /\ r_cuts = CutsOfLedgers(r_written', 1)
        /\ r_cuts' # r_cuts =>
               /\ r_written' = r_written
               /\ Len(r_written) = r_t - 1
               /\ r_cuts' = Append(r_cuts, [path |-> outpath, media |-> r_m + 1])
      ]_vars

\* a finished run over two tiers and two media files with different stems:
\* every ledger is written, the cuts are those of the ledgers, in order
C23_Witness ==
    /\ r_pc = "done" /\ ~args.dryrun
    /\ Len(r_tiers) = 2 /\ Len(r_media) = 2
    /\ r_media[1].stem # r_media[2].stem
    /\ Len(r_written) = 2
    /\ Len(r_written[1].clips.clips) > 1
    /\ r_cuts = CutsOfLedgers(r_written, 1)
    /\ Len(r_cuts) > 4

\* C24: in a dry run the media cut is never called, no overwrite
\* confirmation is asked for, and neither the output directory nor the
\* subdirectory of a tier is made.
C24_DryRunExtractsNothing ==
    [][ args.dryrun =>
        /\ r_cuts' = <<>>
        /\ r_new' = {} /\ r_dirs' = r_dirs
        /\ r_err' # "Failed to create"
        /\ IsSome(r_last') =>
               /\ Unwrap(r_last').answer = "none"
               /\ Unwrap(r_last').result = "none"
      ]_vars

\* a dry run has passed over two media files of a boundary, one of them
\* with an output path that exists, and no directory exists
C24_Witness ==
    /\ args.dryrun /\ r_dirs = {}
    /\ r_pc = "media" /\ r_m = 2
    /\ IsSome(r_last) /\ Unwrap(r_last).existed
    /\ Len(Unwrap(r_clip).media) = 2
    /\ r_cuts = <<>>

\* end - start of every record of every ledger written
ProcessedDurations ==
    UNION {{r_written[w].clips.clips[k].end - r_written[w].clips.clips[k].start :
               k \in 1..Len(r_written[w].clips.clips)} : w \in 1..Len(r_written)}

\* the summary agrees with the boundaries processed
SummaryIsOfProcessed ==
    IF ProcessedDurations = {}
    THEN LongestClip(r_durations) = 0 /\ ShortestClip(r_durations) = 0
    ELSE /\ LongestClip(r_durations) \in ProcessedDurations
         /\ ShortestClip(r_durations) \in ProcessedDurations
         /\ \A d \in ProcessedDurations :
                ShortestClip(r_durations) <= d /\ d <= LongestClip(r_durations)

\* C25, as the specification states it: at the end of a successful run the
\* longest and the shortest duration reported are the maximum and the
\* minimum of end - start over the boundaries processed in all tiers, and
\* both are 0 when none was processed.  Violated: single mode records no
\* duration.
C25_DurationSummary == r_pc = "done" => SummaryIsOfProcessed

\* the same for the runs that are not in single mode
C25_BatchSummary == (r_pc = "done" /\ ~args.single) => SummaryIsOfProcessed

\* C27, as the specification states it: with the dry-run flag set, run
\* creates or overwrites no file at all, the ledger file of a tier
\* included, and it does not fail on writing when the output directory
\* and the tier subdirectories do not exist.  Violated: the ledger is
\* written at the end of every tier, dry run or not.
C27_DryRunWritesNothing ==
    args.dryrun => r_written = <<>> /\ r_err # "write"

\* a dry run has written the ledger of a tier into an existing directory
C27_LedgerWrittenInDryRun ==
    args.dryrun /\ r_written # <<>> /\ r_new = {} /\ r_cuts = <<>>

\* a dry run has failed on the ledger of a tier whose directory is missing
C27_DryRunFailsWithoutDirectory ==
    args.dryrun /\ r_err = "write" /\ r_dirs = {} /\ r_written = <<>>

--------------------------------------------------------------------------
(* Claims about the extractor and the lookup together (SpecTrip) *)

\* C26, as the specification states it: for a ledger that run wrote and an
\* output path recorded in it, get_timestamps called with the path, or
\* with the path and further extensions, returns the start and end of the
\* record that holds the path, also when the stem of the media file or the
\* tier id in the file name contains dots.  Violated: the lookup strips the
\* file name down to its first dot, the ledger paths only their extension.
C26_RoundTrip ==
    IsSome(q_out) =>
        LET record == Unwrap(q_in).ledger.clips[Unwrap(q_in).record]
        IN  Unwrap(q_out) = Some(<<record.start, record.end>>)

\* the same for the file names without a dot in the stem
C26_RoundTripWithoutDots ==
    (IsSome(q_out) /\
        \A k \in 1..Len(Unwrap(q_in).ledger.clips) :
          \A m \in 1..Len(Unwrap(q_in).ledger.clips[k].media) :
            Extension(Unwrap(FileStem(Unwrap(q_in).ledger.clips[k].media[m]))) = None)
    => LET record == Unwrap(q_in).ledger.clips[Unwrap(q_in).record]
       IN  Unwrap(q_out) = Some(<<record.start, record.end>>)

--------------------------------------------------------------------------
(* Claims about the transcripts (SpecJoin) *)

\* which segment of which file, for every segment of a list
Origins(segments) == [k \in 1..Len(segments) |-> <<segments[k].file, segments[k].id>>]

RECURSIVE AllOrigins(_)
\* the segments of the files, in the order of the files
AllOrigins(files) ==
    IF files = <<>> THEN <<>>
    ELSE Origins(Head(files).json.segments) \o AllOrigins(Tail(files))

\* C28, as the specification states it: join returns the segments of self
\* followed by the segments of every other transcript, in argument order,
\* none dropped, whatever the text of self, and from_paths yields the
\* segments of all the files given.  Violated: WhisperJson::join appends
\* the segments of the others only when self has a text.
C28_JoinKeepsAllSegments ==
    (IsSome(w_out) /\ Unwrap(w_out).kind = "ok")
    => Origins(Unwrap(w_out).value.segments) = AllOrigins(w_files)

\* the same for WhisperTsJson, and for WhisperJson when self has a text
C28_JoinWithText ==
    (/\ IsSome(w_out) /\ Unwrap(w_out).kind = "ok"
     /\ Unwrap(w_in).kind = "WhisperJson" => IsSome(w_files[1].json.text))
    => Origins(Unwrap(w_out).value.segments) = AllOrigins(w_files)

--------------------------------------------------------------------------
(* Claims about the documents built from transcripts (SpecEaf) *)

\* the vectors to_eaf has filled so far
built == Unwrap(w_out)

\* the annotations of all tiers, tier after tier
AllAnnotations == built.main \o built.words \o ConcatAll(built.refs)

\* the time slot references of an annotation
SlotRefs(a) ==
    {a.ts1[i] : i \in 1..Len(a.ts1)} \cup {a.ts2[i] : i \in 1..Len(a.ts2)}

\* C29: in the documents to_eaf builds, for any segments with any number
\* of words each, annotation ids are unique across all tiers, time slot
\* ids are ts1..tsK in list order, every time slot reference of an
\* annotation names a generated time slot, and every referred annotation
\* points to the id of the main annotation of its own segment.
C29_IdsOfTheDocument ==
    IsSome(w_out) =>
        /\ \A i, j \in 1..Len(AllAnnotations) :
               AllAnnotations[i].id = AllAnnotations[j].id => i = j
        /\ \A k \in 1..Len(built.timeslots) : built.timeslots[k].id = TimeSlotId(k)
        /\ \A i \in 1..Len(AllAnnotations) :
               SlotRefs(AllAnnotations[i]) \subseteq
                   {built.timeslots[k].id : k \in 1..Len(built.timeslots)}
        /\ \A r \in 1..Len(built.refs) :
               /\ Len(built.refs[r]) = Len(built.main)
               /\ \A s \in 1..Len(built.refs[r]) :
                      built.refs[r][s].ref = Some(built.main[s].id)

\* a document of two segments is built, the first of two words, the second
\* of one, with six tiers of referred annotations
C29_Witness ==
    /\ IsSome(w_out) /\ built.pc = "built"
    /\ Len(built.main) = 2 /\ Len(built.words) = 3 /\ Len(built.refs) = 6
    /\ Len(Unwrap(w_in).segments[1].words) = 2
    /\ Len(built.timeslots) = 10

--------------------------------------------------------------------------
(* Claims about writefile (SpecWrite) *)

\* the answer of a line: lower case, surrounding whitespace removed
AnswerOf(line) == Trim(to_lowercase(line))

IsYes(line) == AnswerOf(line) \in {<<"y">>, <<"y", "e", "s">>}

IsNo(line) == AnswerOf(line) \in {<<"n">>, <<"n", "o">>}

\* C30: writefile leaves an existing file untouched unless the user
\* confirms.  When the path exists the content is written only after an
\* answer of y/yes in any letter case, surrounding whitespace ignored;
\* after n/no it returns Ok(false) and the file is as it was; any other
\* answer asks again and writes nothing; when the path does not exist it
\* writes without asking, and what it returns as Ok is Ok(true), with the
\* content in the file.
C30_WriteOnlyWhenConfirmed ==
    [][ LET before == Unwrap(o_in).before
            content == Unwrap(o_in).content
            asked == o_n' = o_n + 1
        IN  /\ o_file' # o_file =>
                   /\ o_pc = "write"
                   /\ IsSome(before) => IsSome(o_line) /\ IsYes(Unwrap(o_line))
            /\ (asked /\ IsYes(Unwrap(o_line'))) =>
                   o_pc' = "write" /\ o_file' = before
            /\ (asked /\ IsNo(Unwrap(o_line'))) =>
                   o_pc' = "returned" /\ o_ret' = "Ok(false)" /\ o_file' = before
            /\ (asked /\ ~IsYes(Unwrap(o_line')) /\ ~IsNo(Unwrap(o_line'))) =>
                   o_pc' = "confirm" /\ o_ret' = "none" /\ o_file' = before
            /\ o_ret' = "Ok(false)" =>
                   IsSome(before) /\ IsNo(Unwrap(o_line')) /\ o_file' = before
            /\ o_ret' = "Ok(true)" => o_file' = Some(content)
            /\ (o_pc = "start" /\ before = None) => o_pc' = "write"
            /\ before = None => o_n' = 0 /\ o_line' = None
            /\ o_pc = "write" => o_ret' \in {"Ok(true)", "Err"}
      ]_vars

\* an existing file was overwritten after an answer that was neither yes
\* nor no and then " YES " in capitals with whitespace around it
C30_Witness ==
    /\ IsSome(o_in) /\ Unwrap(o_in).before = Some(<<"o", "l", "d">>)
    /\ o_n = 2 /\ o_line = Some(<<" ", "Y", "E", "S", " ", "\r", "\n">>)
    /\ o_file = Some(<<"n", "e", "w">>) /\ o_ret = "Ok(true)"

--------------------------------------------------------------------------
(* Claims about the media cut (SpecCut) *)

\* C20, as the specification states it: extract_timespan returns the
\* destination path only when ffmpeg produced the cut, and returns an error
\* when the subprocess cannot be started or exits with a failure status.
\* Violated: the exit status of the subprocess is never looked at.
C20_FailureIsAnError ==
    IsSome(f_out) =>
        /\ Unwrap(f_out).kind = "ok" => Unwrap(f_out).process = "exit_success"
        /\ Unwrap(f_out).process \in {"spawn_error", "exit_failure"} =>
               Unwrap(f_out).kind = "err"

====
